---- MODULE Spec2Model ----
(***************************************************************************)
(* Model of the git-branch-as-database persistence code of train-list:     *)
(* safeWriteToBranch with its backup / delete / orphan / restore / write / *)
(* commit+push modules (GitBranchSaveWriteUtils), and the data-then-version*)
(* publish of processTrainDelayReport.                                     *)
(*                                                                         *)
(* git itself is an external collaborator; it is modelled by the operators *)
(* Git* below, which follow git's documented behaviour: a two-way merge on *)
(* checkout, an unborn HEAD after checkout --orphan, a non-fast-forward    *)
(* push being rejected.  Every git or fs call may in addition fail for an  *)
(* external reason (network, lock, permission): an injected fault.         *)
(***************************************************************************)
EXTENDS Integers, Sequences, FiniteSets, TLC

\* ------------------------------------------------------------------ bounds
MaxFaults == 3      \* injected external failures in one run
MaxCalls == 2       \* consecutive safeWriteToBranch calls on one clone
RaceFaults == 1     \* injected failures while two writers race

\* ------------------------------------------------------- program constants
maxAttempts == 3

\* --------------------------------------------------------------- universe
TargetBranch == "target"
MainLiteral == "main"
BackupPlaceholder == "temp_placeholder_for_cleanup"
DeletePlaceholder == "temp_placeholder_branch"
TempBackupNames == <<"temp_backup_1", "temp_backup_2", "temp_backup_3",
                     "temp_backup_4", "temp_backup_5", "temp_backup_6",
                     "temp_backup_7", "temp_backup_8", "temp_backup_9">>

FilePath == "f"         \* filePathInRepo
OtherFile == "g"        \* another file of the previous tip
HookFile == "h"         \* a file beforeCommit creates
BaseFile == "m"         \* a file of the base branch

OldContent == <<1, 2>>
NewData == <<3>>
OtherContent == <<9>>
HookContent == <<7>>
BaseContent == <<0>>

\* ------------------------------------------------- partial-function helpers
EmptyMap == [x \in {} |-> <<>>]
Put(t, p, v) == [q \in (DOMAIN t) \cup {p} |-> IF q = p THEN v ELSE t[q]]
Del(t, p) == [q \in (DOMAIN t) \ {p} |-> t[q]]
Overlay(base, top) ==
    [q \in (DOMAIN base) \cup (DOMAIN top) |-> IF q \in DOMAIN top THEN top[q] ELSE base[q]]
Restrict(t, S) == [q \in (DOMAIN t) \cap S |-> t[q]]
Opt(t, p) == IF p \in DOMAIN t THEN <<t[p]>> ELSE <<>>

\* readdirSync lists a directory in name order; a copy loop that fails has
\* copied the items before the failing one.
FileOrder == <<FilePath, OtherFile, HookFile, BaseFile>>
Rank(p) == CHOOSE i \in 1..Len(FileOrder) : FileOrder[i] = p
PartialCopies(t) ==
    {Restrict(t, {p \in DOMAIN t : Rank(p) < k}) : k \in {Rank(q) : q \in DOMAIN t}}

\* ------------------------------------------------------------------ state
VARIABLES
    remote,      \* the remote repository: branch name -> commit
    repo,        \* the local clone (tempDir): head, branches, tracking, index, wt
    disk,        \* backup scratch directories beside the clone: number -> files
    opts,        \* SafeWriteOptions of the call in progress
    pc,          \* position inside safeWriteToBranch
    attempt,     \* let attempt
    lastError,   \* let lastError
    delIdx,      \* position of the for loop of deleteBranches
    succeeded,   \* the try block reached its return
    outcome,     \* "none" | "returned" | "thrown" of the latest call
    thrownMsg,   \* the error the terminal throw carries
    calls,       \* calls started on this clone
    faults,      \* injected failures so far
    nextId,      \* next commit id
    tipAtStart,  \* remote tip of the target branch when the call began
    written,     \* finalContent of the latest writeFileContent
    callLog,     \* what the call did: commits, pushes, waits
    pub,         \* the run of mergeNewReportAndClearNoneTodayDataThenPushToDownloadRepo
    trk,         \* the run of main(): scanOperationTrackingFromUploaderRepo, then
                 \* mergeTrackingDataAndPushToDatabaseRepo
    race,        \* two concurrent writers: which one is running, and the
                 \* suspended one's clone, options and position
    fn           \* a function evaluated on its own: its arguments, the
                 \* statement it is at, its locals and its result

vars == <<remote, repo, disk, opts, pc, attempt, lastError, delIdx, succeeded,
          outcome, thrownMsg, calls, faults, nextId, tipAtStart, written, callLog,
          pub, trk, race, fn>>

\* ------------------------------------------------------------ git: commits
\* A commit: its id, its tree, and the ids of all its ancestors.
MkCommit(id, tree, anc) == [id |-> id, tree |-> tree, anc |-> anc]
ParentCount(c) == IF c.anc = {} THEN 0 ELSE 1
HistoryLen(c) == Cardinality(c.anc) + 1

Born(r) == r.head \in DOMAIN r.branches
HeadTree(r) == IF Born(r) THEN r.branches[r.head].tree ELSE EmptyMap

\* ----------------------------------------------------- git: two-way merge
\* git checkout switches from tree H to tree M by a two-way merge with the
\* index: a path is kept when H and M agree or the index already has M's
\* entry; it is taken from M when index and work tree are clean against H;
\* otherwise the checkout is refused (local changes or an untracked file
\* would be overwritten).
AllPaths(H, I, W, M) == (DOMAIN H) \cup (DOMAIN I) \cup (DOMAIN W) \cup (DOMAIN M)
Keep(H, I, M, p) == Opt(H, p) = Opt(M, p) \/ Opt(I, p) = Opt(M, p)
Take(H, I, W, M, p) ==
    /\ ~Keep(H, I, M, p)
    /\ Opt(I, p) = Opt(H, p)
    /\ Opt(W, p) = Opt(I, p)
TwoWayOk(H, I, W, M) ==
    \A p \in AllPaths(H, I, W, M) : Keep(H, I, M, p) \/ Take(H, I, W, M, p)
TwoWayIndex(H, I, M) ==
    LET kept == {p \in DOMAIN I : Keep(H, I, M, p)}
        taken == {p \in DOMAIN M : ~Keep(H, I, M, p)}
    IN [p \in kept \cup taken |-> IF p \in taken THEN M[p] ELSE I[p]]
TwoWayWt(H, I, W, M) ==
    LET kept == {p \in DOMAIN W : Keep(H, I, M, p)}
        taken == {p \in DOMAIN M : ~Keep(H, I, M, p)}
    IN [p \in kept \cup taken |-> IF p \in taken THEN M[p] ELSE W[p]]

SwitchTo(r, name, c) ==
    [r EXCEPT !.head = name,
              !.branches = Put(r.branches, name, c),
              !.index = TwoWayIndex(HeadTree(r), r.index, c.tree),
              !.wt = TwoWayWt(HeadTree(r), r.index, r.wt, c.tree)]

\* git checkout <name>: a local branch, or a remote-tracking branch of that
\* name from which the local branch is created.
CheckoutSource(r, name) ==
    IF name \in DOMAIN r.branches THEN <<r.branches[name]>>
    ELSE IF name \in DOMAIN r.tracking THEN <<r.tracking[name]>>
    ELSE <<>>
GitCheckoutOk(r, name) ==
    /\ CheckoutSource(r, name) # <<>>
    /\ TwoWayOk(HeadTree(r), r.index, r.wt, CheckoutSource(r, name)[1].tree)
GitCheckout(r, name) == SwitchTo(r, name, CheckoutSource(r, name)[1])

\* git checkout -b <name> origin/<from>
GitCheckoutNewOk(r, name, from) ==
    /\ name \notin DOMAIN r.branches
    /\ from \in DOMAIN r.tracking
    /\ TwoWayOk(HeadTree(r), r.index, r.wt, r.tracking[from].tree)
GitCheckoutNew(r, name, from) == SwitchTo(r, name, r.tracking[from])

\* git checkout -b <name> <localStart>   (simple-git checkoutBranch)
GitCheckoutBranchOk(r, name, start) ==
    /\ name \notin DOMAIN r.branches
    /\ CheckoutSource(r, start) # <<>>
    /\ TwoWayOk(HeadTree(r), r.index, r.wt, CheckoutSource(r, start)[1].tree)
GitCheckoutBranch(r, name, start) == SwitchTo(r, name, CheckoutSource(r, start)[1])

\* git checkout --orphan <name>: HEAD becomes the unborn branch <name>;
\* index and work tree are left as they are.
GitCheckoutOrphanOk(r, name) == name \notin DOMAIN r.branches
\* (mutant: the branch is created at the current commit, as checkout -b does)
GitCheckoutBranchAtHead(r, name) ==
    IF Born(r)
    THEN [r EXCEPT !.head = name, !.branches = Put(r.branches, name, r.branches[r.head])]
    ELSE [r EXCEPT !.head = name]
GitCheckoutOrphan(r, name) == [r EXCEPT !.head = name]

\* git reset --hard: index and tracked files are set to HEAD's tree (the
\* empty tree on an unborn branch); untracked files stay.
\* (mutant: the reset is left out)
GitResetSkipped(r) == r
GitResetHard(r) ==
    LET H == HeadTree(r)
        untracked == (DOMAIN r.wt) \ ((DOMAIN r.index) \cup (DOMAIN H))
    IN [r EXCEPT !.index = H,
                 !.wt = [p \in untracked \cup DOMAIN H |->
                            IF p \in DOMAIN H THEN H[p] ELSE r.wt[p]]]

\* git branch -D <name>
GitDeleteLocalBranchOk(r, name) == name \in DOMAIN r.branches /\ name # r.head
\* (mutant: the branch is left in place)
GitDeleteLocalBranchSkipped(r, name) == r
GitDeleteLocalBranch(r, name) == [r EXCEPT !.branches = Del(r.branches, name)]

\* git fetch (no prune)
GitFetch(r, rem) == [r EXCEPT !.tracking = Overlay(r.tracking, rem)]

\* git ls-remote --heads origin <name>
GitListRemote(rem, name) == name \in DOMAIN rem

\* git push origin --delete <name>
GitPushDeleteOk(rem, name) == name \in DOMAIN rem
\* (mutant: the remote keeps the branch)
GitPushDeleteSkipped(rem, name) == rem
GitPushDeleteRemote(rem, name) == Del(rem, name)
GitPushDeleteRepo(r, name) == [r EXCEPT !.tracking = Del(r.tracking, name)]

\* git add .
GitAddAll(r) == [r EXCEPT !.index = r.wt]

\* git status: the paths that differ between HEAD, index and work tree
GitStatusFiles(r) ==
    {p \in AllPaths(HeadTree(r), r.index, r.wt, EmptyMap) :
        Opt(HeadTree(r), p) # Opt(r.index, p) \/ Opt(r.index, p) # Opt(r.wt, p)}

\* git commit -m
GitCommitOk(r) == r.index # HeadTree(r)
GitCommit(r, id) ==
    LET anc == IF Born(r) THEN r.branches[r.head].anc \cup {r.branches[r.head].id} ELSE {}
    IN [r EXCEPT !.branches = Put(r.branches, r.head, MkCommit(id, r.index, anc))]

\* (mutant: git push --force)
GitPushForced(r, rem, name) == name \in DOMAIN r.branches
\* git push origin <name>: rejected unless the remote tip is absent, the same
\* commit, or an ancestor of the pushed commit.
GitPushOk(r, rem, name) ==
    /\ name \in DOMAIN r.branches
    /\ \/ name \notin DOMAIN rem
       \/ rem[name].id = r.branches[name].id
       \/ rem[name].id \in r.branches[name].anc
GitPushRemote(r, rem, name) == Put(rem, name, r.branches[name])
GitPushRepo(r, name) == [r EXCEPT !.tracking = Put(r.tracking, name, r.branches[name])]


\* ---------------------------------------------------- safeWriteToBranch
\* The run record of the download-repository publisher before any run.
NoRun ==
    [run |-> 0, status |-> "idle", today |-> 1, input |-> EmptyMap,
     existing |-> <<>>, old |-> EmptyMap, merged |-> EmptyMap,
     create |-> FALSE, delete |-> FALSE, idx |-> 1, vExists |-> FALSE,
     pushes |-> <<>>, ptrAtStart |-> <<>>, vError |-> "none"]
\* The run record of main() of the tracking pipeline before it starts.
NoTracking ==
    [status |-> "idle", envSet |-> [uploader |-> TRUE, database |-> TRUE],
     up |-> EmptyMap, clone |-> EmptyMap,
     targets |-> <<>>, idx |-> 1, allReports |-> <<>>, toDelete |-> <<>>,
     groups |-> <<>>, net |-> <<>>, attempted |-> <<>>, failedGroup |-> 0]
\* a single writer
NoRace == [active |-> FALSE, me |-> 1, other |-> <<>>]
NoCall == [of |-> "none"]
NoError == [step |-> "none", attempt |-> 0]
\* What the call has done so far (observations, not program state):
\* commits made, pushes and remote deletions that succeeded, the backoff waits,
\* whether an attempt failed after the remote branch had been deleted,
\* whether a documented fallback dropped prior content (backup checkout or
\* copy failed, old file unreadable), whether a full backup copy was made,
\* and the backup directories whose removal failed.
EmptyLog == [commits |-> 0, pushes |-> 0, deletes |-> 0, waits |-> <<>>,
             failedAfterDelete |-> FALSE, fallbacks |-> FALSE,
             backedUp |-> FALSE, rmFailed |-> {}]

\* contentProcessor of the tracking-data caller: old records, then the new ones
Processor(old) == (IF old = <<>> THEN <<>> ELSE old[1]) \o NewData

OptionSets ==
    [needBackup : BOOLEAN,
     branchesToDelete : {<<>>, <<TargetBranch>>},
     useProcessor : BOOLEAN,
     hook : BOOLEAN]

\* `.git_backup_temp_${branchName}_${Date.now()}_${attempt}` and
\* `temp_backup_${branchName}_${Date.now()}`: a fresh name per attempt
DirNo == (calls - 1) * maxAttempts + attempt
TempBackupBranch == TempBackupNames[DirNo]

Inject == IF faults < MaxFaults THEN BOOLEAN ELSE {FALSE}
Bump(inj) == faults' = faults + (IF inj THEN 1 ELSE 0)

ctlVars == <<opts, attempt, delIdx, succeeded, outcome, thrownMsg, calls,
             nextId, tipAtStart, written, lastError, pub, trk, race, fn>>

\* the call goes on at newpc with the clone and the remote as given
GotoLog(newpc, newrepo, newremote, newlog) ==
    /\ pc' = newpc
    /\ repo' = newrepo
    /\ remote' = newremote
    /\ callLog' = newlog
    /\ UNCHANGED <<disk, ctlVars>>
Goto(newpc, newrepo, newremote) == GotoLog(newpc, newrepo, newremote, callLog)

\* an exception reaches the catch block of the attempt
Raise(step, newrepo) ==
    /\ pc' = "catch"
    /\ lastError' = [step |-> step, attempt |-> attempt]
    /\ repo' = newrepo
    /\ UNCHANGED <<remote, disk, opts, attempt, delIdx, succeeded, outcome,
                   thrownMsg, calls, nextId, tipAtStart, written, callLog, pub, trk, race, fn>>

\* The clone the callers hand over: a fresh clone on the base branch.
FreshClone(rem, base) ==
    [head |-> base,
     branches |-> Restrict(rem, {base}),
     tracking |-> rem,
     index |-> rem[base].tree,
     wt |-> rem[base].tree]

BaseCommit == MkCommit(1, Put(EmptyMap, BaseFile, BaseContent), {})
\* The target branch is absent, or holds a tip with the file and another file
\* on top of an older commit.
OldTip == MkCommit(2, Put(Put(EmptyMap, FilePath, OldContent), OtherFile, OtherContent), {3})
InitialRemotes(base) ==
    { Put(EmptyMap, base, BaseCommit),
      Put(Put(EmptyMap, base, BaseCommit), TargetBranch, OldTip) }

Init ==
    \E base \in {"main", "master"} :
      \E rem \in InitialRemotes(base) :
        /\ remote = rem
        /\ repo = FreshClone(rem, base)
        /\ disk = EmptyMap
        /\ opts = [masterBranch |-> base, needBackup |-> FALSE,
                   branchesToDelete |-> <<>>, useProcessor |-> FALSE, hook |-> FALSE]
        /\ pc = "idle"
        /\ attempt = 0
        /\ lastError = NoError
        /\ delIdx = 1
        /\ succeeded = FALSE
        /\ outcome = "none"
        /\ thrownMsg = NoError
        /\ calls = 0
        /\ faults = 0
        /\ nextId = 4
        /\ tipAtStart = <<>>
        /\ written = <<>>
        /\ callLog = EmptyLog
        /\ pub = NoRun
        /\ trk = NoTracking
        /\ race = NoRace
        /\ fn = NoCall

\* The caller's loop calls safeWriteToBranch with the same kind of options
\* for every group; a thrown call ends the run.
StartCall ==
    /\ pc = "idle"
    /\ outcome # "thrown"
    /\ calls < MaxCalls
    /\ \E o \in IF calls = 0 THEN OptionSets ELSE {opts} :
         opts' = [masterBranch |-> opts.masterBranch, needBackup |-> o.needBackup,
                  branchesToDelete |-> o.branchesToDelete,
                  useProcessor |-> o.useProcessor, hook |-> o.hook]
    /\ calls' = calls + 1
    /\ attempt' = 0
    /\ lastError' = NoError
    /\ succeeded' = FALSE
    /\ outcome' = "none"
    /\ tipAtStart' = Opt(remote, TargetBranch)
    /\ written' = <<>>
    /\ callLog' = EmptyLog
    /\ pc' = "loop"
    /\ UNCHANGED <<remote, repo, disk, delIdx, thrownMsg, faults, nextId, pub, trk, race, fn>>

\* (mutant: one attempt too many)
LoopContinuesInclusive(n) == n <= maxAttempts
\* while (attempt < maxAttempts)
LoopContinues(n) == n < maxAttempts

\* (mutant: the attempt starts with the delete step, without the backup)
FirstStepIsDelete(needBackup) == "del_loop"
\* if (needBackup) { await backupExistingBranch(...) } comes first in the try
\* block, deleteBranches second
FirstStep(needBackup) == IF needBackup THEN "bk_fetch" ELSE "del_loop"

\* { attempt++; backupTempDir = ...; try {
BeginAttempt ==
    /\ pc = "loop"
    /\ LoopContinues(attempt)
    /\ attempt' = attempt + 1
    /\ delIdx' = 1
    /\ pc' = FirstStep(opts.needBackup)
    /\ UNCHANGED <<remote, repo, disk, opts, lastError, succeeded, outcome,
                   thrownMsg, calls, faults, nextId, tipAtStart, written, callLog, pub, trk, race, fn>>

\* throw new Error(`... ${lastError?.message}`) after the loop
ThrowTerminal ==
    /\ pc = "loop"
    /\ ~LoopContinues(attempt)
    /\ outcome' = "thrown"
    /\ thrownMsg' = lastError
    /\ pc' = "idle"
    /\ UNCHANGED <<remote, repo, disk, opts, attempt, lastError, delIdx, succeeded,
                   calls, faults, nextId, tipAtStart, written, callLog, pub, trk, race, fn>>

\* ------------------------------------------------- backupExistingBranch
BkFetch ==
    /\ pc = "bk_fetch"
    /\ \E inj \in Inject :
         /\ Bump(inj)
         /\ IF inj THEN Raise("fetch", repo)
            ELSE Goto("bk_ls", GitFetch(repo, remote), remote)

BkListRemote ==
    /\ pc = "bk_ls"
    /\ \E inj \in Inject :
         /\ Bump(inj)
         /\ IF inj THEN Raise("listRemote", repo)
            ELSE IF GitListRemote(remote, TargetBranch)
                 THEN Goto("bk_checkout", repo, remote)
                 ELSE Goto("del_loop", repo, remote)

\* (mutant: a catch block that throws the backup error on)
BackupErrorRethrown(newrepo) == Raise("backup", newrepo)
\* catch (backupError) { console.error(...) }: not thrown on, the flow goes on
\* in the finally block
BackupErrorCaught(newrepo) ==
    GotoLog("bk_fin_checkout", newrepo, remote, [callLog EXCEPT !.fallbacks = TRUE])

BkCheckout ==
    /\ pc = "bk_checkout"
    /\ \E inj \in Inject :
         /\ Bump(inj)
         /\ IF ~inj /\ GitCheckoutNewOk(repo, TempBackupBranch, TargetBranch)
            THEN Goto("bk_copy", GitCheckoutNew(repo, TempBackupBranch, TargetBranch), remote)
            ELSE BackupErrorCaught(repo)

\* mkdirSync(backupTempDir); copy every item of tempDir except .git.  A
\* failure leaves no directory or a directory with part of the files.
BkCopy ==
    /\ pc = "bk_copy"
    /\ \E inj \in Inject :
         /\ Bump(inj)
         /\ IF inj
            THEN /\ \/ UNCHANGED disk
                    \/ \E part \in PartialCopies(repo.wt) :
                         disk' = Put(disk, DirNo, part)
                 /\ callLog' = [callLog EXCEPT !.fallbacks = TRUE]
            ELSE /\ disk' = Put(disk, DirNo, repo.wt)
                 /\ callLog' = [callLog EXCEPT !.backedUp = TRUE]
    /\ pc' = "bk_fin_checkout"
    /\ UNCHANGED <<remote, repo, ctlVars>>

BkFinallyCheckout ==
    /\ pc = "bk_fin_checkout"
    /\ \E inj \in Inject :
         /\ Bump(inj)
         /\ IF ~inj /\ GitCheckoutOk(repo, opts.masterBranch)
            THEN Goto("bk_fin_delete", GitCheckout(repo, opts.masterBranch), remote)
            ELSE Goto("bk_fin_orphan", repo, remote)

BkFinallyDelete ==
    /\ pc = "bk_fin_delete"
    /\ \E inj \in Inject :
         /\ Bump(inj)
         /\ IF ~inj /\ GitDeleteLocalBranchOk(repo, TempBackupBranch)
            THEN Goto("del_loop", GitDeleteLocalBranch(repo, TempBackupBranch), remote)
            ELSE Goto("bk_fin_orphan", repo, remote)

BkFallbackOrphan ==
    /\ pc = "bk_fin_orphan"
    /\ \E inj \in Inject :
         /\ Bump(inj)
         /\ IF ~inj /\ GitCheckoutOrphanOk(repo, BackupPlaceholder)
            THEN Goto("bk_fin_reset", GitCheckoutOrphan(repo, BackupPlaceholder), remote)
            ELSE Goto("del_loop", repo, remote)

BkFallbackReset ==
    /\ pc = "bk_fin_reset"
    /\ \E inj \in Inject :
         /\ Bump(inj)
         /\ IF ~inj
            THEN Goto("bk_fin_delete2", GitResetHard(repo), remote)
            ELSE Goto("del_loop", repo, remote)

BkFallbackDelete ==
    /\ pc = "bk_fin_delete2"
    /\ \E inj \in Inject :
         /\ Bump(inj)
         /\ IF ~inj /\ GitDeleteLocalBranchOk(repo, TempBackupBranch)
            THEN Goto("del_loop", GitDeleteLocalBranch(repo, TempBackupBranch), remote)
            ELSE Goto("del_loop", repo, remote)


\* -------------------------------------------------------- deleteBranches
BranchToDelete == opts.branchesToDelete[delIdx]

\* for (const fullBranchName of branchesToDelete)
DelLoop ==
    /\ pc = "del_loop"
    /\ IF delIdx <= Len(opts.branchesToDelete)
       THEN Goto("del_checkout", repo, remote)
       ELSE Goto("orph_checkout", repo, remote)
    /\ UNCHANGED faults

\* await repoGit.checkout('main')
DelCheckoutMain ==
    /\ pc = "del_checkout"
    /\ \E inj \in Inject :
         /\ Bump(inj)
         /\ IF ~inj /\ GitCheckoutOk(repo, MainLiteral)
            THEN Goto("del_push", GitCheckout(repo, MainLiteral), remote)
            ELSE Goto("del_orphan", repo, remote)

DelFallbackOrphan ==
    /\ pc = "del_orphan"
    /\ \E inj \in Inject :
         /\ Bump(inj)
         /\ IF ~inj /\ GitCheckoutOrphanOk(repo, DeletePlaceholder)
            THEN Goto("del_reset", GitCheckoutOrphan(repo, DeletePlaceholder), remote)
            ELSE Goto("del_push", repo, remote)

DelFallbackReset ==
    /\ pc = "del_reset"
    /\ \E inj \in Inject :
         /\ Bump(inj)
         /\ IF ~inj
            THEN Goto("del_push", GitResetHard(repo), remote)
            ELSE Goto("del_push", repo, remote)

\* try { push(['origin', '--delete', name]) } catch { ignored }
DelPushDelete ==
    /\ pc = "del_push"
    /\ \E inj \in Inject :
         /\ Bump(inj)
         /\ pc' = "del_local"
         /\ IF ~inj /\ GitPushDeleteOk(remote, BranchToDelete)
            THEN /\ remote' = GitPushDeleteRemote(remote, BranchToDelete)
                 /\ repo' = GitPushDeleteRepo(repo, BranchToDelete)
                 /\ callLog' = [callLog EXCEPT !.deletes = @ + 1]
            ELSE UNCHANGED <<remote, repo, callLog>>
         /\ UNCHANGED <<disk, opts, attempt, delIdx, succeeded, outcome, thrownMsg,
                        calls, nextId, tipAtStart, written, lastError, pub, trk, race, fn>>

\* try { deleteLocalBranch(name, true) } catch { ignored }
DelLocalDelete ==
    /\ pc = "del_local"
    /\ \E inj \in Inject :
         /\ Bump(inj)
         /\ pc' = "del_loop"
         /\ delIdx' = delIdx + 1
         /\ repo' = IF ~inj /\ GitDeleteLocalBranchOk(repo, BranchToDelete)
                    THEN GitDeleteLocalBranch(repo, BranchToDelete)
                    ELSE repo
         /\ UNCHANGED <<remote, disk, opts, attempt, succeeded, outcome, thrownMsg,
                        calls, nextId, tipAtStart, written, callLog, lastError, pub, trk, race, fn>>

\* ---------------------------------------------------- createOrphanBranch
\* (mutant: the failed checkout of masterBranch is thrown on)
CheckoutMasterRethrown(newrepo) == Raise("checkout master", newrepo)
\* catch (e) { console.warn(...) }: createOrphanBranch goes on
CheckoutMasterCaught(newrepo) == Goto("orph_orphan", newrepo, remote)

OrphCheckoutMaster ==
    /\ pc = "orph_checkout"
    /\ \E inj \in Inject :
         /\ Bump(inj)
         /\ IF ~inj /\ GitCheckoutOk(repo, opts.masterBranch)
            THEN Goto("orph_orphan", GitCheckout(repo, opts.masterBranch), remote)
            ELSE CheckoutMasterCaught(repo)

OrphCheckoutOrphan ==
    /\ pc = "orph_orphan"
    /\ \E inj \in Inject :
         /\ Bump(inj)
         /\ IF ~inj /\ GitCheckoutOrphanOk(repo, TargetBranch)
            THEN Goto("orph_reset", GitCheckoutOrphan(repo, TargetBranch), remote)
            ELSE Raise("checkout --orphan", repo)

OrphReset ==
    /\ pc = "orph_reset"
    /\ \E inj \in Inject :
         /\ Bump(inj)
         /\ IF ~inj
            THEN Goto(IF opts.needBackup THEN "restore" ELSE "write",
                      GitResetHard(repo), remote)
            ELSE Raise("reset --hard", repo)

\* --------------------------------------------------------- restoreBackup
\* Copies every item of the backup directory into the work tree; a failed
\* copy has copied part of them and throws.
RestoreBackup ==
    /\ pc = "restore"
    /\ IF DirNo \notin DOMAIN disk
       THEN Goto("write", repo, remote) /\ UNCHANGED faults
       ELSE \E inj \in Inject :
              /\ Bump(inj)
              /\ IF ~inj
                 THEN Goto("write", [repo EXCEPT !.wt = Overlay(repo.wt, disk[DirNo])],
                           remote)
                 ELSE \E part \in PartialCopies(disk[DirNo]) :
                        Raise("restore", [repo EXCEPT !.wt = Overlay(repo.wt, part)])

\* ------------------------------------------------------ writeFileContent
WriteChoices == IF faults < MaxFaults THEN {"ok", "throw", "readfail"} ELSE {"ok"}

\* (mutant: the processor never sees the file on disk)
OldContentAlwaysNull(r, readFails) == <<>>
\* oldContent: the file on disk, null when absent or unreadable
OldContentOf(r, readFails) ==
    IF FilePath \in DOMAIN r.wt /\ ~readFails THEN <<r.wt[FilePath]>> ELSE <<>>
\* (mutant: fileContent is ignored, the processor path is always taken)
FinalContentAlwaysMerged(r, readFails) == Processor(OldContentOf(r, readFails))
FinalContent(r, readFails) ==
    IF opts.useProcessor THEN Processor(OldContentOf(r, readFails)) ELSE NewData

\* (mutant: the hook is never called)
AfterWriteSkipsHook(hook) == "cp_add"
\* if (beforeCommit) { await beforeCommit() } follows writeFileContent;
\* commitAndPush comes after it
AfterWrite(hook) == IF hook THEN "hook" ELSE "cp_add"

WriteFileContent ==
    /\ pc = "write"
    /\ \E how \in WriteChoices :
         /\ how = "readfail" => (opts.useProcessor /\ FilePath \in DOMAIN repo.wt)
         /\ Bump(how # "ok")
         /\ IF how = "throw"
            THEN Raise("writeFile", repo)
            ELSE /\ written' = <<FinalContent(repo, how = "readfail")>>
                 /\ repo' = [repo EXCEPT !.wt =
                               Put(repo.wt, FilePath, FinalContent(repo, how = "readfail"))]
                 /\ pc' = AfterWrite(opts.hook)
                 /\ callLog' = IF how = "readfail"
                               THEN [callLog EXCEPT !.fallbacks = TRUE] ELSE callLog
                 /\ UNCHANGED <<remote, disk, opts, attempt, delIdx, succeeded, outcome,
                                thrownMsg, calls, nextId, tipAtStart, lastError, pub, trk, race, fn>>

\* ----------------------------------------------------------- beforeCommit
\* The hook writes its derived file into the work tree; a hook that throws
\* may have written it already.
BeforeCommit ==
    /\ pc = "hook"
    /\ \E inj \in Inject :
         /\ Bump(inj)
         /\ IF ~inj
            THEN Goto("cp_add", [repo EXCEPT !.wt = Put(repo.wt, HookFile, HookContent)],
                      remote)
            ELSE \/ Raise("beforeCommit", repo)
                 \/ Raise("beforeCommit",
                          [repo EXCEPT !.wt = Put(repo.wt, HookFile, HookContent)])

\* ---------------------------------------------------------- commitAndPush
\* (mutant: off by one, a single changed file counts as clean)
HasChangesMoreThanOne(r) == Cardinality(GitStatusFiles(r)) > 1
\* status.files.length > 0
HasChanges(r) == GitStatusFiles(r) # {}

CpAdd ==
    /\ pc = "cp_add"
    /\ \E inj \in Inject :
         /\ Bump(inj)
         /\ IF ~inj THEN Goto("cp_status", GitAddAll(repo), remote)
            ELSE Raise("add", repo)

\* if (status.files.length > 0) {...} else { skip }; then `return`
CpStatus ==
    /\ pc = "cp_status"
    /\ \E inj \in Inject :
         /\ Bump(inj)
         /\ IF inj THEN Raise("status", repo)
            ELSE IF HasChanges(repo)
                 THEN Goto("cp_commit", repo, remote)
                 ELSE /\ pc' = "finally"
                      /\ succeeded' = TRUE
                      /\ UNCHANGED <<remote, repo, disk, opts, attempt, delIdx, outcome,
                                     thrownMsg, calls, nextId, tipAtStart, written,
                                     callLog, lastError, pub, trk, race, fn>>

CpCommit ==
    /\ pc = "cp_commit"
    /\ \E inj \in Inject :
         /\ Bump(inj)
         /\ IF ~inj /\ GitCommitOk(repo)
            THEN /\ repo' = GitCommit(repo, nextId)
                 /\ nextId' = nextId + 1
                 /\ callLog' = [callLog EXCEPT !.commits = @ + 1]
                 /\ pc' = "cp_push"
                 /\ UNCHANGED <<remote, disk, opts, attempt, delIdx, succeeded, outcome,
                                thrownMsg, calls, tipAtStart, written, lastError, pub, trk, race, fn>>
            ELSE Raise("commit", repo)

CpPush ==
    /\ pc = "cp_push"
    /\ \E inj \in Inject :
         /\ Bump(inj)
         /\ IF ~inj /\ GitPushOk(repo, remote, TargetBranch)
            THEN /\ remote' = GitPushRemote(repo, remote, TargetBranch)
                 /\ repo' = GitPushRepo(repo, TargetBranch)
                 /\ callLog' = [callLog EXCEPT !.pushes = @ + 1]
                 /\ succeeded' = TRUE
                 /\ pc' = "finally"
                 /\ UNCHANGED <<disk, opts, attempt, delIdx, outcome, thrownMsg, calls,
                                nextId, tipAtStart, written, lastError, pub, trk, race, fn>>
            ELSE Raise("push", repo)

\* ------------------------------------------------------- catch / finally
\* (mutant: the exponent counts the attempts from 0)
BackoffFromZero(n) == 2 ^ (n - 1)
\* Math.pow(2, attempt) * 1000 ms, in seconds
BackoffSeconds(n) == 2 ^ n

CatchBlock ==
    /\ pc = "catch"
    /\ callLog' = [callLog EXCEPT
                     !.waits = IF attempt < maxAttempts
                               THEN Append(@, BackoffSeconds(attempt)) ELSE @,
                     !.failedAfterDelete = @ \/ callLog.deletes > 0]
    /\ pc' = "finally"
    /\ UNCHANGED <<remote, repo, disk, opts, attempt, delIdx, succeeded, outcome,
                   thrownMsg, calls, faults, nextId, tipAtStart, written, lastError, pub, trk, race, fn>>

\* (mutant: the directory is left in place)
RemoveDirSkipped(d, dir) == d
\* fs.rmSync(backupTempDir, {recursive: true, force: true})
RemoveDir(d, dir) == Del(d, dir)

\* if (existsSync(backupTempDir)) try { rmSync } catch { logged }
FinallyBlock ==
    /\ pc = "finally"
    /\ IF DirNo \in DOMAIN disk
       THEN \E inj \in Inject :
              /\ Bump(inj)
              /\ disk' = IF inj THEN disk ELSE RemoveDir(disk, DirNo)
              /\ callLog' = IF inj THEN [callLog EXCEPT !.rmFailed = @ \cup {DirNo}]
                            ELSE callLog
       ELSE UNCHANGED <<disk, faults, callLog>>
    /\ IF succeeded
       THEN outcome' = "returned" /\ pc' = "idle"
       ELSE outcome' = outcome /\ pc' = "loop"
    /\ UNCHANGED <<remote, repo, opts, attempt, delIdx, succeeded, thrownMsg, calls,
                   nextId, tipAtStart, written, lastError, pub, trk, race, fn>>

Next ==
    \/ StartCall
    \/ BeginAttempt
    \/ ThrowTerminal
    \/ BkFetch
    \/ BkListRemote
    \/ BkCheckout
    \/ BkCopy
    \/ BkFinallyCheckout
    \/ BkFinallyDelete
    \/ BkFallbackOrphan
    \/ BkFallbackReset
    \/ BkFallbackDelete
    \/ DelLoop
    \/ DelCheckoutMain
    \/ DelFallbackOrphan
    \/ DelFallbackReset
    \/ DelPushDelete
    \/ DelLocalDelete
    \/ OrphCheckoutMaster
    \/ OrphCheckoutOrphan
    \/ OrphReset
    \/ RestoreBackup
    \/ WriteFileContent
    \/ BeforeCommit
    \/ CpAdd
    \/ CpStatus
    \/ CpCommit
    \/ CpPush
    \/ CatchBlock
    \/ FinallyBlock

Spec == Init /\ [][Next]_vars

\* The script is one sequential async function: every awaited git or fs call
\* completes (with a result or an error), so a step that can be taken is taken.
SpecFair == Spec /\ WF_vars(Next)

TypeOK ==
    /\ pc \in {"idle", "loop", "bk_fetch", "bk_ls", "bk_checkout", "bk_copy",
               "bk_fin_checkout", "bk_fin_delete", "bk_fin_orphan", "bk_fin_reset",
               "bk_fin_delete2", "del_loop", "del_checkout", "del_orphan", "del_reset",
               "del_push", "del_local", "orph_checkout", "orph_orphan", "orph_reset",
               "restore", "write", "hook", "cp_add", "cp_status", "cp_commit",
               "cp_push", "catch", "finally"}
    /\ attempt \in 0..maxAttempts
    /\ faults \in 0..MaxFaults


\* ------------------------------------------------------------ the claims
Returned == pc = "idle" /\ outcome = "returned"
Thrown == pc = "idle" /\ outcome = "thrown"
OnRemote(b) == b \in DOMAIN remote
RemoteTip == remote[TargetBranch]

\* C1: whenever safeWriteToBranch returns without throwing, the target branch
\* exists on the remote and its tip holds filePathInRepo with exactly the
\* content written (fileContent, or what contentProcessor returned).
C1_ReturnedHasContent ==
    Returned =>
        /\ OnRemote(TargetBranch)
        /\ written # <<>>
        /\ Opt(RemoteTip.tree, FilePath) = written
        /\ (~opts.useProcessor => Opt(RemoteTip.tree, FilePath) = <<NewData>>)

C1_Witness ==
    /\ Returned
    /\ opts.useProcessor
    /\ OnRemote(TargetBranch)
    /\ RemoteTip.tree[FilePath] = OldContent \o NewData

\* C2: after a successful call the target branch's history on the remote is
\* exactly one commit with zero parents, whatever the branch held before and
\* however many attempts were needed.
C2_SingleOrphanCommit ==
    Returned =>
        /\ OnRemote(TargetBranch)
        /\ ParentCount(RemoteTip) = 0
        /\ HistoryLen(RemoteTip) = 1

C2_Witness ==
    /\ Returned
    /\ attempt > 1
    /\ tipAtStart # <<>>
    /\ HistoryLen(tipAtStart[1]) > 1
    /\ HistoryLen(RemoteTip) = 1


TipTree == RemoteTip.tree
IsPrefix(a, b) == Len(a) <= Len(b) /\ SubSeq(b, 1, Len(a)) = a
ThisCallDirs == {(calls - 1) * maxAttempts + k : k \in 1..maxAttempts}

\* The content of the tip the call began with is still in tree: every file
\* is there, unchanged, except that the target file may have grown by
\* appending (contentProcessor) or been overwritten (plain fileContent).
PriorContentKept(tree) ==
    \A p \in DOMAIN tipAtStart[1].tree :
        /\ p \in DOMAIN tree
        /\ IF p = FilePath
           THEN opts.useProcessor => IsPrefix(tipAtStart[1].tree[p], tree[p])
           ELSE tree[p] = tipAtStart[1].tree[p]

\* C3: with needBackup on an existing remote branch, the content of the tip
\* the call began with is not lost when an attempt fails after the branch
\* was deleted: it is in the branch once a later attempt succeeds, and still
\* on the remote when all attempts fail.  (Stated for calls that made a full
\* backup and took no documented fallback.)
C3_ContentNotLost ==
    (/\ opts.needBackup
     /\ tipAtStart # <<>>
     /\ callLog.failedAfterDelete
     /\ callLog.backedUp
     /\ ~callLog.fallbacks)
    => /\ Returned => (OnRemote(TargetBranch) /\ PriorContentKept(TipTree))
       /\ Thrown => (OnRemote(TargetBranch) /\ PriorContentKept(TipTree))

\* C4: the tip held f with content A; a successful call with needBackup and
\* an appending contentProcessor leaves f = A followed by the new content,
\* and every other file of the previous tip is still there.  (Stated for
\* calls that took no documented fallback.)
C4_AppendKeepsOld ==
    (/\ Returned
     /\ opts.needBackup
     /\ opts.useProcessor
     /\ tipAtStart # <<>>
     /\ FilePath \in DOMAIN tipAtStart[1].tree
     /\ ~callLog.fallbacks)
    => /\ OnRemote(TargetBranch)
       /\ Opt(TipTree, FilePath) = <<tipAtStart[1].tree[FilePath] \o NewData>>
       /\ \A p \in (DOMAIN tipAtStart[1].tree) \ {FilePath} :
            Opt(TipTree, p) = <<tipAtStart[1].tree[p]>>

\* C5: after a successful call with needBackup=false and plain fileContent
\* the tip holds only the files written in that rewrite cycle: the target
\* file with the new content and the file beforeCommit creates; nothing of
\* the previous tip, of the base branch or of an earlier failed attempt.
CycleFiles == {FilePath} \cup (IF opts.hook THEN {HookFile} ELSE {})
C5_OnlyCycleFiles ==
    (Returned /\ ~opts.needBackup /\ ~opts.useProcessor)
    => /\ OnRemote(TargetBranch)
       /\ DOMAIN TipTree = CycleFiles
       /\ TipTree[FilePath] = NewData
       /\ opts.hook => TipTree[HookFile] = HookContent

C5_Witness ==
    /\ Returned
    /\ ~opts.needBackup /\ ~opts.useProcessor /\ opts.hook
    /\ attempt > 1
    /\ tipAtStart # <<>>
    /\ OtherFile \in DOMAIN tipAtStart[1].tree
    /\ DOMAIN TipTree = {FilePath, HookFile}

\* The tree a call without any failure produces.
FailureFreeTree ==
    LET prior == IF opts.needBackup /\ tipAtStart # <<>>
                 THEN tipAtStart[1].tree ELSE EmptyMap
        file == IF opts.useProcessor THEN Processor(Opt(prior, FilePath)) ELSE NewData
        withFile == Put(prior, FilePath, file)
    IN IF opts.hook THEN Put(withFile, HookFile, HookContent) ELSE withFile

FailureFreeIsAsExpected ==
    (Returned /\ faults = 0 /\ attempt = 1) => TipTree = FailureFreeTree

\* C6: the push fails on the first attempt and succeeds on the second: the
\* branch ends with the file contents of a failure-free call, in exactly one
\* commit.
C6_RetryConverges ==
    (/\ Returned
     /\ attempt = 2
     /\ lastError = [step |-> "push", attempt |-> 1]
     /\ ~callLog.fallbacks)
    => /\ OnRemote(TargetBranch)
       /\ TipTree = FailureFreeTree
       /\ HistoryLen(RemoteTip) = 1

\* C7: safeWriteToBranch always terminates; it makes at most 3 attempts,
\* returns at the first attempt that succeeds without starting another, never
\* throws before the third attempt has failed, and the terminal error carries
\* the error of the last attempt.
C7_AttemptsBounded ==
    /\ attempt <= maxAttempts
    /\ Returned => lastError.attempt = attempt - 1
    /\ Thrown => /\ attempt = maxAttempts
                 /\ thrownMsg = lastError
                 /\ thrownMsg.attempt = maxAttempts
                 /\ thrownMsg.step # "none"
C7_BoundedRetryTerminates ==
    /\ []C7_AttemptsBounded
    /\ [][succeeded => (attempt' = attempt \/ pc = "idle")]_vars
    /\ (pc # "idle") ~> (pc = "idle")

C7_Witness ==
    /\ Thrown
    /\ thrownMsg = [step |-> "push", attempt |-> maxAttempts]
    /\ Len(callLog.waits) = maxAttempts - 1

\* C8 as claimed: after any call, and between two attempts, no backup
\* scratch directory of the call is on disk.
C8_NoScratchDirLeft ==
    pc \in {"idle", "loop"} => (DOMAIN disk) \cap ThisCallDirs = {}

\* C8 amended: after any call, and before the next attempt starts, the only
\* backup scratch directories of the call still on disk are those whose
\* removal in the finally block failed.
C8_ScratchDirsRemovedUnlessRmFails ==
    pc \in {"idle", "loop"} => (DOMAIN disk) \cap ThisCallDirs \subseteq callLog.rmFailed

C8_Witness ==
    /\ Thrown
    /\ callLog.backedUp
    /\ callLog.rmFailed = {}
    /\ disk = EmptyMap

\* C9 as claimed: the second of two calls with identical content finds a
\* clean working tree and skips commit and push, so one commit was produced.
C9_SecondCallSkips ==
    (Returned /\ calls >= 2 /\ ~opts.useProcessor)
    => /\ HistoryLen(RemoteTip) = 1
       /\ callLog.commits = 0
       /\ callLog.pushes = 0

\* C9 amended: after the second of two calls with identical content the
\* target branch's history is exactly one commit, but it is a new one: the
\* second call does not find a clean tree, it recreates the orphan branch,
\* commits and pushes again, replacing the first call's commit.  It returns
\* only when the branch is listed in branchesToDeleteBeforeWrite: otherwise
\* checkout --orphan meets the local branch of the first call and fails.
C9_SecondCallRewrites ==
    (Returned /\ calls >= 2 /\ ~opts.useProcessor)
    => /\ OnRemote(TargetBranch)
       /\ HistoryLen(RemoteTip) = 1
       /\ callLog.commits >= 1
       /\ callLog.pushes = 1
       /\ tipAtStart # <<>>
       /\ RemoteTip.id # tipAtStart[1].id
       /\ TipTree[FilePath] = tipAtStart[1].tree[FilePath]
       /\ opts.branchesToDelete = <<TargetBranch>>

C9_Witness ==
    /\ Returned
    /\ calls = 2
    /\ ~opts.useProcessor
    /\ faults = 0
    /\ callLog.pushes = 1
    /\ TipTree = tipAtStart[1].tree


\* ======================================================================
\* mergeNewReportAndClearNoneTodayDataThenPushToDownloadRepo,
\* backupPreviousDayData and updateVersionBranch: the data branch, then the
\* version pointer, then the removal of the old data branches.
\* ======================================================================
MaxRuns == 2        \* runs of the publisher
MaxDay == 2         \* Beijing days the runs span

MASTER_BRANCH == "master"
VersionBranch == "version_train-delay-download"
\* `${downloadType}_${getBeijingDateTime()}_${Date.now()}`: one name per run,
\* in the order git branch lists them; the first is there before any run.
DownloadBranchNames ==
    <<"train-delay-download_0", "train-delay-download_1", "train-delay-download_2",
      "train-delay-download_3", "train-delay-download_4">>
\* `backup_${downloadType}_${yesterdayBeijingDate}`, by the number of today
BackupBranchNames ==
    <<"backup_train-delay-download_d0", "backup_train-delay-download_d1",
      "backup_train-delay-download_d2", "backup_train-delay-download_d3">>
BackupFileNames == <<"backup/d0.json", "backup/d1.json", "backup/d2.json", "backup/d3.json">>
DataFile == "train-delay-download/train-delay-download.msgpack.zst"
VersionFile == "version/train-delay-download.version.json"
TrainNo == "G1"

\* ------------------------------------------------------- data and codecs
Report(uuid, day, ts) == [reportUuid |-> uuid, day |-> day, reportTimestamp |-> ts]
\* msgpack encode + zstd compress, and back
Encode(data) == [zst |-> [msgpack |-> data]]
Decode(blob) == blob.zst.msgpack
JsonStringify(x) == [json |-> x]
JsonParse(text) == text.json

\* filterTodayReports and the two filter loops
\* (mutant: nothing is filtered out)
FilterTodayReportsKeepsAll(reports, today) == reports
FilterTodayReports(reports, today) == SelectSeq(reports, LAMBDA r : r.day = today)
FilterData(data, today) ==
    LET kept == {t \in DOMAIN data : FilterTodayReports(data[t], today) # <<>>}
    IN [t \in kept |-> FilterTodayReports(data[t], today)]

\* the uuidSet loops: the first report of a reportUuid is kept
RECURSIVE UniqueReports(_, _)
UniqueReports(reports, seen) ==
    IF reports = <<>> THEN <<>>
    ELSE IF Head(reports).reportUuid \in seen
         THEN UniqueReports(Tail(reports), seen)
         ELSE <<Head(reports)>>
              \o UniqueReports(Tail(reports), seen \cup {Head(reports).reportUuid})

\* uniqueReports.sort((a, b) => a.reportTimestamp - b.reportTimestamp), stable
RECURSIVE InsertByTimestamp(_, _)
InsertByTimestamp(r, sorted) ==
    IF sorted = <<>> THEN <<r>>
    ELSE IF Head(sorted).reportTimestamp <= r.reportTimestamp
         THEN <<Head(sorted)>> \o InsertByTimestamp(r, Tail(sorted))
         ELSE <<r>> \o sorted
RECURSIVE SortByTimestamp(_)
SortByTimestamp(reports) ==
    IF reports = <<>> THEN <<>>
    ELSE InsertByTimestamp(reports[Len(reports)],
                           SortByTimestamp(SubSeq(reports, 1, Len(reports) - 1)))

ReportsOf(data, t) == IF t \in DOMAIN data THEN data[t] ELSE <<>>
MergeReportData(filteredOld, filteredNew) ==
    LET all == (DOMAIN filteredOld) \cup (DOMAIN filteredNew)
        unique(t) == UniqueReports(ReportsOf(filteredOld, t) \o ReportsOf(filteredNew, t), {})
    IN [t \in {x \in all : unique(x) # <<>>} |-> SortByTimestamp(unique(t))]

\* (mutant: the cross-day case is missing, old data are kept)
DecisionWithoutCleanup(hasOldRepo, newLen, oldLen, mergeLen) ==
    IF ~hasOldRepo THEN <<TRUE, FALSE>>
    ELSE IF newLen > 0 THEN <<TRUE, TRUE>>
    ELSE <<FALSE, FALSE>>
\* the decision flags: <<needCreateNewRepo, needDeleteOldRepo>>
Decision(hasOldRepo, newLen, oldLen, mergeLen) ==
    IF ~hasOldRepo THEN <<TRUE, FALSE>>
    ELSE IF newLen > 0 THEN <<TRUE, TRUE>>
    ELSE IF oldLen > 0 /\ mergeLen = 0 THEN <<TRUE, TRUE>>
    ELSE <<FALSE, FALSE>>

\* validReports a run may be handed on the given day
ValidReportSets(day) ==
    { EmptyMap,
      Put(EmptyMap, TrainNo, <<Report("a", day, 2)>>),
      Put(EmptyMap, TrainNo, <<Report("b", day, 1)>>),
      Put(EmptyMap, TrainNo, <<Report("c", day - 1, 3)>>) }

\* ------------------------------------------------------------ git, paths
\* git add <path>
GitAddPath(r, p) ==
    [r EXCEPT !.index = IF p \in DOMAIN r.wt THEN Put(r.index, p, r.wt[p])
                        ELSE Del(r.index, p)]
\* fs.writeFileSync into the clone
WriteFile(r, p, content) == [r EXCEPT !.wt = Put(r.wt, p, content)]
\* git commit: with nothing staged git exits 1 without writing to stderr,
\* which simple-git does not report as an error
\* (mutant: the commit is made without a parent, as on an orphan branch)
GitCommitParentless(r, id) ==
    [r EXCEPT !.branches = Put(r.branches, r.head, MkCommit(id, r.index, {}))]
GitCommitIfStaged(r, id) == IF GitCommitOk(r) THEN GitCommit(r, id) ELSE r

\* branchesResult.all filtered by 'remotes/origin/' + downloadType
ExistingDownloadBranches(r) ==
    SelectSeq(DownloadBranchNames, LAMBDA b : b \in DOMAIN r.tracking)

NewBranchName == DownloadBranchNames[pub.run + 1]
BackupBranchName == BackupBranchNames[pub.today]
BackupFile == BackupFileNames[pub.today]
VersionData == [_version |-> NewBranchName, _fileName |-> DataFile]

\* what a reader resolves: the pointer file at the tip of the version branch
RemotePointer(rem) ==
    IF VersionBranch \in DOMAIN rem /\ VersionFile \in DOMAIN rem[VersionBranch].tree
    THEN <<JsonParse(rem[VersionBranch].tree[VersionFile])>>
    ELSE <<>>

swVars == <<disk, opts, attempt, lastError, delIdx, succeeded, outcome, thrownMsg,
            calls, tipAtStart, written, callLog, trk, race, fn>>

StepChoices == IF faults < MaxFaults THEN {"ok", "early", "late"} ELSE {"ok"}
BumpHow(how) == faults' = faults + (IF how = "ok" THEN 0 ELSE 1)

PGotoId(newpc, newrepo, newremote, newpub, id) ==
    /\ pc' = newpc
    /\ repo' = newrepo
    /\ remote' = newremote
    /\ pub' = newpub
    /\ nextId' = id
    /\ UNCHANGED swVars
PGoto(newpc, newrepo, newremote, newpub) ==
    PGotoId(newpc, newrepo, newremote, newpub, nextId)
\* catch (error) { ...; throw error; } of the run
PThrow(newrepo, newpub) ==
    PGoto("p_idle", newrepo, remote, [newpub EXCEPT !.status = "failed"])

\* The download repository before the first run: the base branch alone, or
\* with a data branch of day 1 and the version pointer that names it.
InitialDataCommit ==
    MkCommit(2, Put(Put(EmptyMap, BaseFile, BaseContent), DataFile,
                    Encode(Put(EmptyMap, TrainNo, <<Report("a", 1, 2)>>))), {1})
InitialVersionCommit ==
    MkCommit(3, Put(Put(EmptyMap, BaseFile, BaseContent), VersionFile,
                    JsonStringify([_version |-> DownloadBranchNames[1],
                                   _fileName |-> DataFile])), {1})
InitialDownloadRemotes ==
    { Put(EmptyMap, MASTER_BRANCH, BaseCommit),
      Put(Put(Put(EmptyMap, MASTER_BRANCH, BaseCommit),
              DownloadBranchNames[1], InitialDataCommit),
          VersionBranch, InitialVersionCommit) }

InitPublish ==
    \E rem \in InitialDownloadRemotes :
        /\ remote = rem
        /\ repo = FreshClone(rem, MASTER_BRANCH)
        /\ disk = EmptyMap
        /\ opts = [masterBranch |-> MASTER_BRANCH, needBackup |-> FALSE,
                   branchesToDelete |-> <<>>, useProcessor |-> FALSE, hook |-> FALSE]
        /\ pc = "p_idle"
        /\ attempt = 0
        /\ lastError = NoError
        /\ delIdx = 1
        /\ succeeded = FALSE
        /\ outcome = "none"
        /\ thrownMsg = NoError
        /\ calls = 0
        /\ faults = 0
        /\ nextId = 4
        /\ tipAtStart = <<>>
        /\ written = <<>>
        /\ callLog = EmptyLog
        /\ pub = NoRun
        /\ trk = NoTracking
        /\ race = NoRace
        /\ fn = NoCall

\* -------------------------------------------------- the run, step by step
\* rmSync of a stale tempDir, the environment check, git.clone, addConfig
PStart ==
    /\ pc = "p_idle"
    /\ pub.run < MaxRuns
    /\ \E day \in {pub.today, pub.today + 1} :
       \E input \in ValidReportSets(day) :
       \E inj \in Inject :
         /\ day <= MaxDay
         /\ Bump(inj)
         /\ LET started == [pub EXCEPT !.run = @ + 1, !.status = "running",
                                       !.today = day, !.input = input,
                                       !.existing = <<>>, !.old = EmptyMap,
                                       !.merged = EmptyMap, !.create = FALSE,
                                       !.delete = FALSE, !.idx = 1,
                                       !.vExists = FALSE, !.vError = "none",
                                       !.ptrAtStart = RemotePointer(remote)]
            IN IF inj THEN PThrow(repo, started)
               ELSE PGoto("p_branch", FreshClone(remote, MASTER_BRANCH), remote, started)

\* repoGit.branch() and the filter for existing download branches
PListBranches ==
    /\ pc = "p_branch"
    /\ \E inj \in Inject :
         /\ Bump(inj)
         /\ LET existing == ExistingDownloadBranches(repo)
            IN IF inj THEN PThrow(repo, pub)
               ELSE PGoto(IF existing # <<>> THEN "p_old_checkout" ELSE "p_filter",
                          repo, remote, [pub EXCEPT !.existing = existing])

\* try { checkout -b <latest> remotes/origin/<latest>; read, decompress,
\* decode } catch { log }: a failure leaves oldReportData empty
POldCheckout ==
    /\ pc = "p_old_checkout"
    /\ \E how \in StepChoices :
         /\ BumpHow(how)
         /\ LET latest == pub.existing[Len(pub.existing)]
                canSwitch == how # "early" /\ GitCheckoutNewOk(repo, latest, latest)
                switched == IF canSwitch THEN GitCheckoutNew(repo, latest, latest) ELSE repo
                old == IF canSwitch /\ how = "ok" /\ DataFile \in DOMAIN switched.wt
                       THEN Decode(switched.wt[DataFile]) ELSE EmptyMap
            IN PGoto("p_old_master", switched, remote, [pub EXCEPT !.old = old])

\* await repoGit.checkout(MASTER_BRANCH), outside the try
POldMaster ==
    /\ pc = "p_old_master"
    /\ \E inj \in Inject :
         /\ Bump(inj)
         /\ IF inj \/ ~GitCheckoutOk(repo, MASTER_BRANCH) THEN PThrow(repo, pub)
            ELSE PGoto("p_filter", GitCheckout(repo, MASTER_BRANCH), remote, pub)

\* the filters of old and new data, and the test for a day change
PFilter ==
    /\ pc = "p_filter"
    /\ UNCHANGED faults
    /\ PGoto(IF pub.old # EmptyMap /\ FilterData(pub.old, pub.today) = EmptyMap
             THEN "pb_checkout" ELSE "p_merge",
             repo, remote, pub)

\* --------------------------------------------------- backupPreviousDayData
\* every failure is caught and logged; the run goes on with the merge
PbCheckout ==
    /\ pc = "pb_checkout"
    /\ \E inj \in Inject :
         /\ Bump(inj)
         /\ IF inj \/ ~GitCheckoutBranchOk(repo, BackupBranchName, MASTER_BRANCH)
            THEN PGoto("p_merge", repo, remote, pub)
            ELSE PGoto("pb_write", GitCheckoutBranch(repo, BackupBranchName, MASTER_BRANCH),
                       remote, pub)

PbWrite ==
    /\ pc = "pb_write"
    /\ \E how \in StepChoices :
         /\ BumpHow(how)
         /\ LET wrote == WriteFile(repo, BackupFile, JsonStringify(pub.old))
            IN CASE how = "early" -> PGoto("p_merge", repo, remote, pub)
                 [] how = "late" -> PGoto("p_merge", wrote, remote, pub)
                 [] how = "ok" -> PGoto("pb_commit", GitAddPath(wrote, BackupFile), remote, pub)

PbCommit ==
    /\ pc = "pb_commit"
    /\ \E inj \in Inject :
         /\ Bump(inj)
         /\ IF inj THEN PGoto("p_merge", repo, remote, pub)
            ELSE PGotoId("pb_push", GitCommitIfStaged(repo, nextId), remote, pub, nextId + 1)

PbPush ==
    /\ pc = "pb_push"
    /\ \E inj \in Inject :
         /\ Bump(inj)
         /\ IF inj \/ ~GitPushOk(repo, remote, BackupBranchName)
            THEN PGoto("p_merge", repo, remote, pub)
            ELSE PGoto("pb_master", GitPushRepo(repo, BackupBranchName),
                       GitPushRemote(repo, remote, BackupBranchName), pub)

PbMaster ==
    /\ pc = "pb_master"
    /\ \E inj \in Inject :
         /\ Bump(inj)
         /\ IF inj \/ ~GitCheckoutOk(repo, MASTER_BRANCH)
            THEN PGoto("p_merge", repo, remote, pub)
            ELSE PGoto("p_merge", GitCheckout(repo, MASTER_BRANCH), remote, pub)

\* ------------------------------------------------- merge and the decision
PMerge ==
    /\ pc = "p_merge"
    /\ UNCHANGED faults
    /\ LET merged == MergeReportData(FilterData(pub.old, pub.today),
                                     FilterData(pub.input, pub.today))
           flags == Decision(pub.existing # <<>>,
                             Cardinality(DOMAIN pub.input),
                             Cardinality(DOMAIN pub.old),
                             Cardinality(DOMAIN merged))
       IN PGoto(IF flags[1] THEN "pn_checkout"
                ELSE IF flags[2] THEN "p_del" ELSE "p_cleanup",
                repo, remote,
                [pub EXCEPT !.merged = merged, !.create = flags[1], !.delete = flags[2]])

\* ----------------------------------------------------- the new data branch
\* any failure here reaches the catch of the run and is thrown again
PnCheckout ==
    /\ pc = "pn_checkout"
    /\ \E inj \in Inject :
         /\ Bump(inj)
         /\ IF inj \/ ~GitCheckoutBranchOk(repo, NewBranchName, MASTER_BRANCH)
            THEN PThrow(repo, pub)
            ELSE PGoto("pn_write", GitCheckoutBranch(repo, NewBranchName, MASTER_BRANCH),
                       remote, pub)

\* msgpack, zstd, writeFileSync, git add <file>
PnWrite ==
    /\ pc = "pn_write"
    /\ \E how \in StepChoices :
         /\ BumpHow(how)
         /\ LET wrote == WriteFile(repo, DataFile, Encode(pub.merged))
            IN CASE how = "early" -> PThrow(repo, pub)
                 [] how = "late" -> PThrow(wrote, pub)
                 [] how = "ok" -> PGoto("pn_commit", GitAddPath(wrote, DataFile), remote, pub)

PnCommit ==
    /\ pc = "pn_commit"
    /\ \E inj \in Inject :
         /\ Bump(inj)
         /\ IF inj THEN PThrow(repo, pub)
            ELSE PGotoId("pn_push", GitCommitIfStaged(repo, nextId), remote, pub, nextId + 1)

\* (mutant: the failed data push is logged and the run goes on)
AfterDataPushSwallowed(pushed) == "v_list"
\* await repoGit.push(...); then updateVersionBranch: a push that throws
\* leaves the try block
AfterDataPush(pushed) == IF pushed THEN "v_list" ELSE "p_throw"

PnPush ==
    /\ pc = "pn_push"
    /\ \E inj \in Inject :
         /\ Bump(inj)
         /\ LET pushed == ~inj /\ GitPushOk(repo, remote, NewBranchName)
                logged == [pub EXCEPT !.pushes =
                              Append(@, [kind |-> "data", branch |-> NewBranchName])]
            IN IF AfterDataPush(pushed) = "p_throw" THEN PThrow(repo, pub)
               ELSE IF pushed
                    THEN PGoto("v_list", GitPushRepo(repo, NewBranchName),
                               GitPushRemote(repo, remote, NewBranchName), logged)
                    ELSE PGoto("v_list", repo, remote, pub)

\* ------------------------------------------------------ updateVersionBranch
\* try { ... } catch { log } finally { checkout(MASTER_BRANCH) }
\* catch (error) { console.error(...) }: the step that threw is only logged
VCaught(step) == [pub EXCEPT !.vError = step]

VList ==
    /\ pc = "v_list"
    /\ \E inj \in Inject :
         /\ Bump(inj)
         /\ IF inj THEN PGoto("v_finally", repo, remote, VCaught("list"))
            ELSE PGoto("v_checkout", repo, remote,
                       [pub EXCEPT !.vExists = VersionBranch \in DOMAIN repo.tracking])

VCheckout ==
    /\ pc = "v_checkout"
    /\ \E inj \in Inject :
         /\ Bump(inj)
         /\ LET ok == IF pub.vExists THEN GitCheckoutOk(repo, VersionBranch)
                      ELSE GitCheckoutBranchOk(repo, VersionBranch, MASTER_BRANCH)
                there == IF pub.vExists THEN GitCheckout(repo, VersionBranch)
                         ELSE GitCheckoutBranch(repo, VersionBranch, MASTER_BRANCH)
            IN IF inj \/ ~ok THEN PGoto("v_finally", repo, remote, VCaught("checkout"))
               ELSE PGoto("v_write", there, remote, pub)

VWrite ==
    /\ pc = "v_write"
    /\ \E how \in StepChoices :
         /\ BumpHow(how)
         /\ LET wrote == WriteFile(repo, VersionFile, JsonStringify(VersionData))
            IN CASE how = "early" -> PGoto("v_finally", repo, remote, VCaught("write"))
                 [] how = "late" -> PGoto("v_finally", wrote, remote, VCaught("add"))
                 [] how = "ok" -> PGoto("v_commit", GitAddPath(wrote, VersionFile), remote, pub)

VCommit ==
    /\ pc = "v_commit"
    /\ \E inj \in Inject :
         /\ Bump(inj)
         /\ IF inj THEN PGoto("v_finally", repo, remote, VCaught("commit"))
            ELSE PGotoId("v_push", GitCommitIfStaged(repo, nextId), remote, pub, nextId + 1)

VPush ==
    /\ pc = "v_push"
    /\ \E inj \in Inject :
         /\ Bump(inj)
         /\ IF inj \/ ~GitPushOk(repo, remote, VersionBranch)
            THEN PGoto("v_finally", repo, remote, VCaught("push"))
            ELSE PGoto("v_finally", GitPushRepo(repo, VersionBranch),
                       GitPushRemote(repo, remote, VersionBranch),
                       [pub EXCEPT !.pushes =
                           Append(@, [kind |-> "version", branch |-> NewBranchName])])

\* the finally block is outside the try: its failure fails the run
VFinally ==
    /\ pc = "v_finally"
    /\ \E inj \in Inject :
         /\ Bump(inj)
         /\ IF inj \/ ~GitCheckoutOk(repo, MASTER_BRANCH) THEN PThrow(repo, pub)
            ELSE PGoto(IF pub.delete THEN "p_del" ELSE "p_cleanup",
                       GitCheckout(repo, MASTER_BRANCH), remote, pub)

\* --------------------------------------------- removal of the old branches
\* for (branch of existingDownloadBranches) try { deleteLocalBranch; push
\* --delete } catch { log }
AfterDelete(idx) == IF idx < Len(pub.existing) THEN "p_del" ELSE "p_cleanup"

PDelLocal ==
    /\ pc = "p_del"
    /\ \E inj \in Inject :
         /\ Bump(inj)
         /\ LET branch == pub.existing[pub.idx]
            IN IF inj \/ ~GitDeleteLocalBranchOk(repo, branch)
               THEN PGoto(AfterDelete(pub.idx), repo, remote, [pub EXCEPT !.idx = @ + 1])
               ELSE PGoto("p_del_push", GitDeleteLocalBranch(repo, branch), remote, pub)

PDelPush ==
    /\ pc = "p_del_push"
    /\ \E inj \in Inject :
         /\ Bump(inj)
         /\ LET branch == pub.existing[pub.idx]
                next == [pub EXCEPT !.idx = @ + 1]
            IN IF inj \/ ~GitPushDeleteOk(remote, branch)
               THEN PGoto(AfterDelete(pub.idx), repo, remote, next)
               ELSE PGoto(AfterDelete(pub.idx), GitPushDeleteRepo(repo, branch),
                          GitPushDeleteRemote(remote, branch), next)

\* fs.rmSync(tempDir), inside the try of the run
PCleanup ==
    /\ pc = "p_cleanup"
    /\ \E inj \in Inject :
         /\ Bump(inj)
         /\ IF inj THEN PThrow(repo, pub)
            ELSE PGoto("p_idle", repo, remote, [pub EXCEPT !.status = "done"])

NextPublish ==
    \/ PStart
    \/ PListBranches
    \/ POldCheckout
    \/ POldMaster
    \/ PFilter
    \/ PbCheckout
    \/ PbWrite
    \/ PbCommit
    \/ PbPush
    \/ PbMaster
    \/ PMerge
    \/ PnCheckout
    \/ PnWrite
    \/ PnCommit
    \/ PnPush
    \/ VList
    \/ VCheckout
    \/ VWrite
    \/ VCommit
    \/ VPush
    \/ VFinally
    \/ PDelLocal
    \/ PDelPush
    \/ PCleanup

SpecPublish == InitPublish /\ [][NextPublish]_vars

\* ----------------------------------------------------------------- C10
PointerNow == RemotePointer(remote)
DataPushedThisRun ==
    \E i \in 1..Len(pub.pushes) :
        pub.pushes[i] = [kind |-> "data", branch |-> NewBranchName]
\* the blob a pointer names is on the remote
BlobOnRemote(rem, ptr) ==
    /\ ptr._version \in DOMAIN rem
    /\ ptr._fileName \in DOMAIN rem[ptr._version].tree

VersionPushesFollowDataPush ==
    \A i \in 1..Len(pub.pushes) :
        pub.pushes[i].kind = "version"
        => \E j \in 1..(i - 1) :
              pub.pushes[j] = [kind |-> "data", branch |-> pub.pushes[i].branch]
PointerKeptUntilDataPushed ==
    (pub.run > 0 /\ ~DataPushedThisRun) => PointerNow = pub.ptrAtStart
PointerMovesOntoPublishedBlob ==
    PointerNow' # PointerNow
    => /\ PointerNow' # <<>>
       /\ BlobOnRemote(remote, PointerNow'[1])
       /\ PointerNow'[1]._version = NewBranchName
       /\ DataPushedThisRun

\* C10: the version pointer is pushed only after the push of the data it
\* names has succeeded: every version-branch push follows the data push of the
\* branch it names, the remote pointer only ever moves onto a blob that is
\* already on the remote, and while the data publish of a run has not
\* succeeded (whether it is still to come or has failed) the remote pointer
\* is the one the run started with.
C10_VersionAfterData ==
    /\ []VersionPushesFollowDataPush
    /\ []PointerKeptUntilDataPushed
    /\ [][PointerMovesOntoPublishedBlob]_vars

\* A run whose data push and version push both succeeded and moved the
\* pointer, and a later run whose data publish failed and left it alone.
C10_Witness ==
    /\ pub.run = 2
    /\ pub.status = "failed"
    /\ ~DataPushedThisRun
    /\ Len(pub.pushes) = 2
    /\ pub.pushes[2].kind = "version"
    /\ PointerNow = <<[_version |-> DownloadBranchNames[2], _fileName |-> DataFile]>>
    /\ pub.create

\* ----------------------------------------------------------------- C11
\* C11: a failure of the checkout, the commit or the push of the version
\* branch in updateVersionBranch is only logged: with no other failure in
\* the run, the run does not end with an exception, it goes on to its
\* remaining steps and completes, and the data branch it pushed is still on
\* the remote.
C11_VersionFailureOnlyLogged ==
    (/\ pub.run = 1 /\ faults = 1 /\ pc = "p_idle"
     /\ pub.vError \in {"checkout", "commit", "push"})
    => /\ pub.status = "done"
       /\ NewBranchName \in DOMAIN remote

\* ----------------------------------------------------------------- C12
\* updateVersionBranch has just pushed the version branch
VersionJustPublished == pc = "v_finally" /\ pub.vError = "none"
VersionTip == remote[VersionBranch]
VersionPushStep ==
    /\ Len(pub'.pushes) = Len(pub.pushes) + 1
    /\ pub'.pushes[Len(pub'.pushes)].kind = "version"

RECURSIVE Occurrences(_, _)
Occurrences(seq, x) ==
    IF seq = <<>> THEN 0
    ELSE (IF Head(seq) = x THEN 1 ELSE 0) + Occurrences(Tail(seq), x)

\* C13: with an appending contentProcessor, whichever step of an earlier
\* attempt failed, the file committed by the attempt that succeeds holds the
\* new records exactly once.
C13_NewRecordsOnce ==
    (Returned /\ opts.useProcessor /\ calls = 1)
    => /\ OnRemote(TargetBranch)
       /\ FilePath \in DOMAIN TipTree
       /\ \A i \in 1..Len(NewData) : Occurrences(TipTree[FilePath], NewData[i]) = 1

\* ======================================================================
\* main() of the tracking pipeline: scanOperationTrackingFromUploaderRepo,
\* then mergeTrackingDataAndPushToDatabaseRepo with its loop over the groups.
\* The uploader repository and its clone are trk.up and trk.clone; the
\* database repository and its clone are remote and repo.
\* ======================================================================
GITHUB_MASTER_BRANCH == "main"
GITEE_MASTER_BRANCH == "master"
\* track-${EventType}_${YYYYMMDDHHMMSS}_${timestamp}_${userUuid}, as git lists
\* them; the last one carries a timestamp outside the time window
UploadBranchNames == <<"track-click_2", "track-query_1", "track-query_3", "track-query_old">>
StaleUploadBranch == "track-query_old"
InWindow(branch) == branch # StaleUploadBranch
\* actualBranchName.split('_')[0]
UploadTypeOf(branch) == IF branch = "track-click_2" THEN "track-click" ELSE "track-query"
EventTypeOf(branch) == IF branch = "track-click_2" THEN "click" ELSE "query"
DateOf(branch) == IF branch = "track-query_3" THEN 2 ELSE 1
\* path.join(tempDir, uploadType, `${uploadType}.json`)
UploadFileOf(branch) ==
    IF UploadTypeOf(branch) = "track-click" THEN "track-click/track-click.json"
    ELSE "track-query/track-query.json"

TrackingReport(branch, uuid) ==
    [userUuid |-> uuid, eventType |-> EventTypeOf(branch), eventTimestamp |-> DateOf(branch)]
\* reportData && reportData.userUuid && reportData.eventType && reportData.eventTimestamp
IsValidTracking(r) == r.userUuid # "" /\ r.eventType # "" /\ r.eventTimestamp # 0
\* JSON.parse throws on a text that is no JSON
ParsesAsJson(text) == "json" \in DOMAIN text

\* what an upload branch may hold
UploadKinds == {"valid", "invalid", "unparseable", "nofile"}
UploadTree(branch, kind) ==
    CASE kind = "valid" ->
           Put(EmptyMap, UploadFileOf(branch), JsonStringify(TrackingReport(branch, "u")))
      [] kind = "invalid" ->
           Put(EmptyMap, UploadFileOf(branch), JsonStringify(TrackingReport(branch, "")))
      [] kind = "unparseable" ->
           Put(EmptyMap, UploadFileOf(branch), [raw |-> "{"])
      [] kind = "nofile" -> EmptyMap
UploadCommit(branch, kind) == MkCommit(1, UploadTree(branch, kind), {})

\* `${report.eventType}_${dateStr}`, in the order Object.entries lists them
GroupKey(r) == <<r.eventType, r.eventTimestamp>>
RECURSIVE GroupKeys(_, _)
GroupKeys(reports, seen) ==
    IF reports = <<>> THEN <<>>
    ELSE IF GroupKey(Head(reports)) \in seen THEN GroupKeys(Tail(reports), seen)
         ELSE <<GroupKey(Head(reports))>>
              \o GroupKeys(Tail(reports), seen \cup {GroupKey(Head(reports))})
GroupReports(reports, key) == SelectSeq(reports, LAMBDA r : GroupKey(r) = key)
\* `backup_track_raw-data_${eventType}` and `${uploadType}/${fileName}`
GroupBranch(key) ==
    IF key[1] = "click" THEN "backup_track_raw-data_click" ELSE "backup_track_raw-data_query"
GroupFile(key) ==
    IF key[1] = "click" THEN "track-click/track-click_d1.json"
    ELSE IF key[2] = 1 THEN "track-query/track-query_d1.json"
    ELSE "track-query/track-query_d2.json"

NoClone == [head |-> "", branches |-> EmptyMap, tracking |-> EmptyMap,
            index |-> EmptyMap, wt |-> EmptyMap]

mVars == <<disk, opts, attempt, lastError, delIdx, succeeded, outcome, thrownMsg,
           calls, tipAtStart, written, callLog, pub, race, fn>>

\* the run goes on at newpc
MGoto(newpc, newtrk) ==
    /\ pc' = newpc
    /\ trk' = newtrk
    /\ UNCHANGED <<remote, repo, nextId, mVars>>
\* catch (error) { console.error(...); throw error; } up to main()
MThrow(status, newtrk) == MGoto("m_idle", [newtrk EXCEPT !.status = status])
Net(t, op) == [t EXCEPT !.net = Append(@, op)]

\* The uploader repository before the run: main, the stale branch, and any of
\* the three upload branches in the window; each URL variable set or not.
InitialUploaders ==
    { [b \in {"main", StaleUploadBranch} \cup S |->
          IF b = "main" THEN BaseCommit
          ELSE IF b = StaleUploadBranch THEN UploadCommit(b, "valid")
          ELSE UploadCommit(b, k[b])] :
      S \in SUBSET {"track-click_2", "track-query_1"},
      k \in [{"track-click_2", "track-query_1"} -> UploadKinds] }
    \cup
    { [b \in {"main", "track-click_2", "track-query_1", "track-query_3"} |->
          IF b = "main" THEN BaseCommit ELSE UploadCommit(b, "valid")] }
InitialDatabases ==
    { Put(EmptyMap, GITEE_MASTER_BRANCH, BaseCommit),
      Put(Put(EmptyMap, GITEE_MASTER_BRANCH, BaseCommit), "backup_track_raw-data_query",
          MkCommit(2, Put(EmptyMap, "track-query/track-query_d1.json",
                          <<TrackingReport("track-query_1", "old")>>), {})) }

InitMain ==
    \E up \in InitialUploaders : \E db \in InitialDatabases :
    \E envUploader \in BOOLEAN : \E envDatabase \in BOOLEAN :
        /\ remote = db
        /\ repo = NoClone
        /\ disk = EmptyMap
        /\ opts = [masterBranch |-> GITEE_MASTER_BRANCH, needBackup |-> TRUE,
                   branchesToDelete |-> <<>>, useProcessor |-> TRUE, hook |-> FALSE]
        /\ pc = "m_scan_clone"
        /\ attempt = 0
        /\ lastError = NoError
        /\ delIdx = 1
        /\ succeeded = FALSE
        /\ outcome = "none"
        /\ thrownMsg = NoError
        /\ calls = 0
        /\ faults = 0
        /\ nextId = 4
        /\ tipAtStart = <<>>
        /\ written = <<>>
        /\ callLog = EmptyLog
        /\ pub = NoRun
        /\ trk = [NoTracking EXCEPT !.status = "running", !.up = up, !.clone = NoClone,
                                    !.envSet = [uploader |-> envUploader,
                                                database |-> envDatabase]]
        /\ race = NoRace
        /\ fn = NoCall

\* ------------------------------------------------ scan of the uploader repo
\* git.clone(process.env.MY_GITHUB_MINI_DATA_UPLOADER_URL, tempDir): the URL is
\* used unchecked; without it git has nothing to clone and the call throws
\* before it reaches the network.
MScanClone ==
    /\ pc = "m_scan_clone"
    /\ \E inj \in Inject :
        /\ Bump(inj)
        /\ IF ~trk.envSet.uploader
             THEN MThrow("failed", trk)
           ELSE IF inj
             THEN MThrow("failed", Net(trk, "clone_uploader"))
           ELSE MGoto("m_scan_list",
                      [Net(trk, "clone_uploader") EXCEPT
                          !.clone = FreshClone(trk.up, GITHUB_MASTER_BRANCH)])

\* repoGit.branch() and the filter on remotes/origin/track-* inside the window
MScanList ==
    /\ pc = "m_scan_list"
    /\ \E inj \in Inject :
        /\ Bump(inj)
        /\ IF inj
             THEN MThrow("failed", trk)
           ELSE LET targets == SelectSeq(UploadBranchNames,
                                  LAMBDA b : b \in DOMAIN trk.clone.tracking /\ InWindow(b))
                IN MGoto(IF targets = <<>> THEN "m_del_local" ELSE "m_scan_branch",
                         [trk EXCEPT !.targets = targets, !.idx = 1])

\* try { checkout -b <branch> origin/<branch>; read and validate the file }
\* catch { log }: a branch whose processing throws is not queued for deletion
MScanBranch ==
    /\ pc = "m_scan_branch"
    /\ \E how \in StepChoices :
        LET b == trk.targets[trk.idx]
            ok == GitCheckoutNewOk(trk.clone, b, b)
            c == IF ok THEN GitCheckoutNew(trk.clone, b, b) ELSE trk.clone
            f == UploadFileOf(b)
            t == [trk EXCEPT !.clone = c]
        IN /\ BumpHow(how)
           /\ IF how = "early" \/ ~ok
                THEN MGoto("m_scan_finally", trk)
              ELSE IF f \notin DOMAIN c.wt
                THEN MGoto("m_scan_finally", [t EXCEPT !.toDelete = Append(@, b)])
              ELSE IF how = "late" \/ ~ParsesAsJson(c.wt[f])
                THEN MGoto("m_scan_finally", t)
              ELSE IF IsValidTracking(JsonParse(c.wt[f]))
                THEN MGoto("m_scan_finally",
                           [t EXCEPT !.allReports = Append(@, JsonParse(c.wt[f])),
                                     !.toDelete = Append(@, b)])
              ELSE MGoto("m_scan_finally", [t EXCEPT !.toDelete = Append(@, b)])

\* finally { await repoGit.checkout(GITHUB_MASTER_BRANCH) }
MScanFinally ==
    /\ pc = "m_scan_finally"
    /\ \E inj \in Inject :
        /\ Bump(inj)
        /\ IF inj \/ ~GitCheckoutOk(trk.clone, GITHUB_MASTER_BRANCH)
             THEN MThrow("failed", trk)
           ELSE LET t == [trk EXCEPT !.clone = GitCheckout(trk.clone, GITHUB_MASTER_BRANCH),
                                     !.idx = @ + 1]
                IN IF trk.idx < Len(trk.targets)
                     THEN MGoto("m_scan_branch", t)
                   ELSE MGoto("m_del_local", [t EXCEPT !.idx = 1])

\* for (const branch of branchesToDelete) try { deleteLocalBranch(branch, true)
MDelLocal ==
    /\ pc = "m_del_local"
    /\ IF trk.idx > Len(trk.toDelete)
         THEN /\ MGoto("m_scan_cleanup", trk)
              /\ UNCHANGED faults
       ELSE \E inj \in Inject :
            LET b == trk.toDelete[trk.idx]
            IN /\ Bump(inj)
               /\ IF inj \/ ~GitDeleteLocalBranchOk(trk.clone, b)
                    THEN MGoto("m_del_local", [trk EXCEPT !.idx = @ + 1])
                  ELSE MGoto("m_del_push",
                             [trk EXCEPT !.clone = GitDeleteLocalBranch(trk.clone, b)])

\* push(['origin', '--delete', branch]) } catch { log }
MDelPush ==
    /\ pc = "m_del_push"
    /\ \E inj \in Inject :
        LET b == trk.toDelete[trk.idx]
            t == [trk EXCEPT !.idx = @ + 1]
        IN /\ Bump(inj)
           /\ IF inj \/ ~GitPushDeleteOk(trk.up, b)
                THEN MGoto("m_del_local", t)
              ELSE MGoto("m_del_local",
                         [Net(t, "delete_upload") EXCEPT
                             !.up = GitPushDeleteRemote(trk.up, b),
                             !.clone = GitPushDeleteRepo(trk.clone, b)])

\* fs.rmSync(tempDir) of the scan; the reports go to the merge stage, which
\* returns at once when there are none and groups them otherwise
MScanCleanup ==
    /\ pc = "m_scan_cleanup"
    /\ \E inj \in Inject :
        /\ Bump(inj)
        /\ IF inj
             THEN MThrow("failed", trk)
           ELSE IF trk.allReports = <<>>
             THEN MGoto("m_idle", [trk EXCEPT !.status = "done", !.clone = NoClone])
           ELSE MGoto("m_env", [trk EXCEPT !.clone = NoClone, !.idx = 1,
                                           !.groups = GroupKeys(trk.allReports, {})])

\* ------------------------------------------- merge into the database repo
\* fs.rmSync(tempDir) if it exists, then
\* if (!process.env.GITEE_MINI_DATABASE_URL) throw new Error('... is not set.')
MEnvCheck ==
    /\ pc = "m_env"
    /\ UNCHANGED faults
    /\ IF ~trk.envSet.database
         THEN MThrow("config_error", trk)
       ELSE MGoto("m_clone", trk)

\* git.clone(process.env.GITEE_MINI_DATABASE_URL, tempDir) and addConfig
MClone ==
    /\ pc = "m_clone"
    /\ \E inj \in Inject :
        /\ Bump(inj)
        /\ pc' = IF inj THEN "m_idle" ELSE "m_group"
        /\ trk' = [Net(trk, "clone_database") EXCEPT
                      !.status = IF inj THEN "failed" ELSE @]
        /\ repo' = IF inj THEN repo ELSE FreshClone(remote, GITEE_MASTER_BRANCH)
        /\ UNCHANGED <<remote, nextId, mVars>>

\* What one safeWriteToBranch call of the loop leaves on the remote: it
\* returns after pushing a parentless commit whose file ends with the group's
\* reports (over the prior files of the branch, or without them when an
\* attempt failed on the way), or it throws after maxAttempts attempts with
\* the branch as it was or deleted.
GroupWriteOutcomes == IF faults < MaxFaults THEN {"returned", "retried", "thrown"}
                      ELSE {"returned"}
PriorGroupTree(rem, key) ==
    IF GroupBranch(key) \in DOMAIN rem THEN rem[GroupBranch(key)].tree ELSE EmptyMap
AppendedGroupTree(tree, key, reports) ==
    Put(tree, GroupFile(key), Opt(tree, GroupFile(key)) \o GroupReports(reports, key))
GroupWriteRemotes(how, rem, key, reports, id) ==
    CASE how = "returned" ->
           { Put(rem, GroupBranch(key),
                 MkCommit(id, AppendedGroupTree(PriorGroupTree(rem, key), key, reports), {})) }
      [] how = "retried" ->
           { Put(rem, GroupBranch(key), MkCommit(id, AppendedGroupTree(t, key, reports), {})) :
               t \in {PriorGroupTree(rem, key), EmptyMap} }
      [] how = "thrown" -> {rem, Del(rem, GroupBranch(key))}

\* the loop stops at the first group whose safeWriteToBranch throws
AbortsOnThrow(how) == how = "thrown"

\* for (const [groupKey, reportsInGroup] of Object.entries(groupedReports))
\*     await safeWriteToBranch({...})      -- no try/catch around the call;
\* the error reaches catch (error) { log; throw error } of the function and
\* of main()
MGroupWrite ==
    /\ pc = "m_group"
    /\ \E how \in GroupWriteOutcomes :
       \E rem \in GroupWriteRemotes(how, remote, trk.groups[trk.idx], trk.allReports, nextId) :
        LET key == trk.groups[trk.idx]
            t == [Net(trk, "write_branch") EXCEPT !.attempted = Append(@, key),
                                                   !.idx = @ + 1]
        IN /\ faults' = faults + (IF how = "returned" THEN 0 ELSE 1)
           /\ remote' = rem
           /\ repo' = [repo EXCEPT !.tracking = rem]
           /\ nextId' = nextId + 1
           /\ UNCHANGED mVars
           /\ IF how = "thrown" /\ trk.failedGroup = 0
                THEN trk' = [t EXCEPT !.failedGroup = trk.idx,
                                      !.status = IF AbortsOnThrow(how) THEN "failed" ELSE @]
              ELSE trk' = t
           /\ pc' = IF AbortsOnThrow(how) THEN "m_idle"
                    ELSE IF trk.idx < Len(trk.groups) THEN "m_group"
                    ELSE "m_cleanup"

\* fs.rmSync(tempDir) of the merge stage; main() logs the end of the run
MCleanup ==
    /\ pc = "m_cleanup"
    /\ \E inj \in Inject :
        /\ Bump(inj)
        /\ MGoto("m_idle", [trk EXCEPT !.status = IF inj THEN "failed" ELSE "done"])

NextMain ==
    \/ MScanClone
    \/ MScanList
    \/ MScanBranch
    \/ MScanFinally
    \/ MDelLocal
    \/ MDelPush
    \/ MScanCleanup
    \/ MEnvCheck
    \/ MClone
    \/ MGroupWrite
    \/ MCleanup

SpecMain == InitMain /\ [][NextMain]_vars

\* ---------------------------------------------------------------- C14
NetworkOps == {"clone_uploader", "delete_upload", "clone_database", "write_branch"}
ConfigErrorRaised == pc = "m_idle" /\ trk.status = "config_error"
\* C14: a run that ends with the configuration error (a required repository
\* URL variable is missing) has performed no network activity: no clone,
\* fetch, push or remote branch deletion.
C14_ConfigErrorBeforeNetwork ==
    ConfigErrorRaised => trk.net = <<>>

\* ---------------------------------------------------------------- C15
RunOfGroupsEnded == pc = "m_idle" /\ trk.attempted # <<>>
\* C15: when safeWriteToBranch fails terminally for one group of the loop, the
\* failure is caught per group and the remaining groups are still attempted:
\* a run whose loop has started ends with every group attempted.
C15_SiblingGroupsAttempted ==
    (RunOfGroupsEnded /\ trk.failedGroup # 0) => trk.attempted = trk.groups

\* ---------------------------------------------------------------- C16
BackupProbePcs == {"bk_fetch", "bk_ls"}
BackupGuardedPcs == {"bk_checkout", "bk_copy", "bk_fin_checkout", "bk_fin_delete",
                     "bk_fin_orphan", "bk_fin_reset", "bk_fin_delete2"}
\* C16: backupExistingBranch never aborts the write attempt: no attempt fails
\* with an error of the fetch or of the remote listing (nor of any later
\* backup step).
C16_BackupNeverAborts ==
    lastError.step \notin {"fetch", "listRemote", "backup"}

\* C16 (amended): inside backupExistingBranch only the fetch and the remote
\* listing can abort the attempt, and they do so with the remote and the
\* backup directories untouched; from the checkout of the remote tip on,
\* every failure is caught and the attempt goes on to the delete step.
C16_BackupAbortsOnlyBeforeCheckout ==
    [][/\ (pc \in BackupProbePcs /\ pc' = "catch")
            => (remote' = remote /\ disk' = disk /\ lastError'.step \in {"fetch", "listRemote"})
       /\ pc \in BackupGuardedPcs => pc' \in BackupGuardedPcs \cup {"del_loop"}]_vars

\* attempt 1 was aborted by the fetch; in attempt 2 the backup of the existing
\* remote branch failed after the listing and the attempt reached the delete step
C16_Witness ==
    /\ pc = "del_loop"
    /\ attempt = 2
    /\ lastError.step = "fetch"
    /\ opts.needBackup
    /\ TargetBranch \in DOMAIN remote
    /\ callLog.fallbacks
    /\ ~callLog.backedUp

\* ---------------------------------------------------------------- C18
\* the step of the attempt a position belongs to: 1 backup, 2 delete,
\* 3 orphan-create, 4 restore, 5 write, 6 hook, 7 commit/push; 0 outside
StageRank(p) ==
    CASE p \in BackupProbePcs \cup BackupGuardedPcs -> 1
      [] p \in {"del_loop", "del_checkout", "del_orphan", "del_reset", "del_push", "del_local"} -> 2
      [] p \in {"orph_checkout", "orph_orphan", "orph_reset"} -> 3
      [] p = "restore" -> 4
      [] p = "write" -> 5
      [] p = "hook" -> 6
      [] p \in {"cp_add", "cp_status", "cp_commit", "cp_push"} -> 7
      [] OTHER -> 0
BranchDeletedOnRemote == \E b \in DOMAIN remote : b \notin DOMAIN remote'
\* C18: within every attempt the steps run in the order backup, delete,
\* orphan-create, restore, write, hook, commit/push: an attempt starts with
\* the backup (with the delete step when no backup is asked for), every
\* step is followed by itself or by the next one (the restore is passed
\* over when no backup is asked for, the hook when there is none), and a
\* remote branch is deleted only in the delete step, hence after the backup
\* step of that attempt is over.
C18_StepsInSequence ==
    [][/\ (StageRank(pc) = 0 /\ StageRank(pc') > 0)
            => /\ pc = "loop"
               /\ attempt' = attempt + 1
               /\ StageRank(pc') = IF opts.needBackup THEN 1 ELSE 2
       /\ (StageRank(pc) > 0 /\ StageRank(pc') > 0)
            => /\ attempt' = attempt
               /\ \/ StageRank(pc') = StageRank(pc)
                  \/ StageRank(pc') = StageRank(pc) + 1
                  \/ StageRank(pc) = 3 /\ StageRank(pc') = 5 /\ ~opts.needBackup
                  \/ StageRank(pc) = 5 /\ StageRank(pc') = 7 /\ ~opts.hook
       /\ BranchDeletedOnRemote => StageRank(pc) = 2
       /\ remote' # remote => StageRank(pc) \in {2, 7}]_vars

\* the remote target branch was deleted in an attempt whose backup had
\* copied the old files
C18_Witness ==
    /\ pc = "del_local"
    /\ opts.needBackup
    /\ callLog.backedUp
    /\ tipAtStart # <<>>
    /\ TargetBranch \notin DOMAIN remote
    /\ DirNo \in DOMAIN disk

\* ---------------------------------------------------------------- C19
\* the waits of a call after its first n failed attempts, in seconds
WaitsAfter(n) == SubSeq(<<2, 4>>, 1, IF n < maxAttempts THEN n ELSE maxAttempts - 1)
\* C19: after failed attempt k the call waits 2^k seconds only if attempts
\* remain: 2 s after the first failure, 4 s after the second, none after the
\* last one.  Between two attempts every attempt so far has failed; a call
\* that returned in attempt n had n - 1 failures; a call that threw had
\* maxAttempts failures.
C19_BackoffSchedule ==
    /\ pc = "loop" => callLog.waits = WaitsAfter(attempt)
    /\ Returned => callLog.waits = WaitsAfter(attempt - 1)
    /\ Thrown => callLog.waits = <<2, 4>> /\ attempt = maxAttempts

\* the terminal error after waits of 2 s and 4 s and no third wait
C19_Witness ==
    /\ Thrown
    /\ thrownMsg.attempt = maxAttempts
    /\ callLog.waits = <<2, 4>>

\* ---------------------------------------------------------------- C20
OuterSteps == {"writeFile", "beforeCommit", "add", "status", "commit", "push"}
\* the steps whose own try/catch keeps the attempt going
SwallowingPcs ==
    BackupGuardedPcs
    \cup {"del_loop", "del_checkout", "del_orphan", "del_reset", "del_push", "del_local"}
    \cup {"orph_checkout"}
\* C20: only a failure of the outer write/commit/push steps makes an attempt
\* fail: no attempt fails with an error of the backup, branch-deletion,
\* orphan-creation or restore stage.
C20_OnlyOuterStepsFail ==
    lastError.step \in OuterSteps \cup {"none"}

\* C20 (amended): an attempt fails, and is retried, exactly when one of these
\* throws: the fetch or the remote listing of the backup, checkout --orphan or
\* reset --hard of createOrphanBranch, the copy of restoreBackup, the write,
\* the hook, add, status, commit or push.  The backup from its checkout on,
\* the whole of deleteBranches and the checkout of masterBranch swallow
\* their failures and the attempt proceeds.
C20_FailingSteps ==
    [][/\ pc \in SwallowingPcs => pc' # "catch"
       /\ (pc # "catch" /\ pc' = "catch")
            => /\ lastError'.attempt = attempt
               /\ lastError'.step \in OuterSteps \cup {"fetch", "listRemote", "checkout --orphan",
                                                       "reset --hard", "restore"}]_vars

\* attempt 1 failed in restoreBackup; attempt 2 got past a swallowed failure
\* and past the restore
C20_Witness ==
    /\ attempt = 2
    /\ lastError = [step |-> "restore", attempt |-> 1]
    /\ callLog.fallbacks
    /\ pc = "write"

\* ======================================================================
\* Two writer processes (two workflow runs) call safeWriteToBranch on the same
\* remote target branch.  Each has its own clone, scratch directories and
\* options; the remote is shared.  The steps of the running writer are the
\* actions of safeWriteToBranch above; Switch hands the processor to the
\* other writer between any two steps.
\* ======================================================================
\* what belongs to one writer
WriterContext ==
    [repo |-> repo, disk |-> disk, opts |-> opts, pc |-> pc, attempt |-> attempt,
     lastError |-> lastError, delIdx |-> delIdx, succeeded |-> succeeded,
     outcome |-> outcome, thrownMsg |-> thrownMsg, calls |-> calls,
     tipAtStart |-> tipAtStart, written |-> written, callLog |-> callLog]

\* Both writers have cloned the repository and are about to call
\* safeWriteToBranch with the same options; the target branch is absent or
\* holds the orphan commit of an earlier publish.
RaceRemotes(base) ==
    { Put(EmptyMap, base, BaseCommit),
      Put(Put(EmptyMap, base, BaseCommit), TargetBranch,
          MkCommit(2, Put(EmptyMap, FilePath, OldContent), {})) }
InitRace ==
    \E base \in {"main", "master"} : \E rem \in RaceRemotes(base) : \E o \in OptionSets :
        /\ remote = rem
        /\ repo = FreshClone(rem, base)
        /\ disk = EmptyMap
        /\ opts = [masterBranch |-> base, needBackup |-> o.needBackup,
                   branchesToDelete |-> o.branchesToDelete,
                   useProcessor |-> o.useProcessor, hook |-> o.hook]
        /\ pc = "idle"
        /\ attempt = 0
        /\ lastError = NoError
        /\ delIdx = 1
        /\ succeeded = FALSE
        /\ outcome = "none"
        /\ thrownMsg = NoError
        /\ calls = MaxCalls - 1
        /\ faults = MaxFaults - RaceFaults
        /\ nextId = 4
        /\ tipAtStart = <<>>
        /\ written = <<>>
        /\ callLog = EmptyLog
        /\ pub = NoRun
        /\ trk = NoTracking
        /\ fn = NoCall
        /\ race = [active |-> TRUE, me |-> 1,
                   other |-> [repo |-> FreshClone(rem, base), disk |-> EmptyMap,
                              opts |-> [masterBranch |-> base, needBackup |-> o.needBackup,
                                        branchesToDelete |-> o.branchesToDelete,
                                        useProcessor |-> o.useProcessor, hook |-> o.hook],
                              pc |-> "idle", attempt |-> 0, lastError |-> NoError,
                              delIdx |-> 1, succeeded |-> FALSE, outcome |-> "none",
                              thrownMsg |-> NoError, calls |-> MaxCalls - 1,
                              tipAtStart |-> <<>>, written |-> <<>>, callLog |-> EmptyLog]]

\* The steps between two of these touch only the writer's own clone and
\* directories, so their order against the other writer's steps makes no
\* difference: the writers are interleaved where one is about to start or
\* to talk to the remote (fetch, ls-remote, push --delete, push).
SwitchPoints == {"idle", "bk_fetch", "bk_ls", "del_push", "cp_push"}

\* the scheduler: the running writer is suspended, the other one goes on
Switch ==
    /\ race.active
    /\ pc \in SwitchPoints
    /\ repo' = race.other.repo
    /\ disk' = race.other.disk
    /\ opts' = race.other.opts
    /\ pc' = race.other.pc
    /\ attempt' = race.other.attempt
    /\ lastError' = race.other.lastError
    /\ delIdx' = race.other.delIdx
    /\ succeeded' = race.other.succeeded
    /\ outcome' = race.other.outcome
    /\ thrownMsg' = race.other.thrownMsg
    /\ calls' = race.other.calls
    /\ tipAtStart' = race.other.tipAtStart
    /\ written' = race.other.written
    /\ callLog' = race.other.callLog
    /\ race' = [race EXCEPT !.me = 3 - @, !.other = WriterContext]
    /\ UNCHANGED <<remote, faults, nextId, pub, trk, fn>>

NextRace ==
    \/ Next
    \/ Switch

SpecRace == InitRace /\ [][NextRace]_vars

\* ---------------------------------------------------------------- C17
WriterStep == race'.me = race.me
TargetTipChanged ==
    /\ TargetBranch \in DOMAIN remote'
    /\ Opt(remote', TargetBranch) # Opt(remote, TargetBranch)
LocalCommitIds(r) == {r.branches[b].id : b \in DOMAIN r.branches}
\* C17: two writers with interleaved steps on the same remote target branch.
\* The remote branch, when it exists, is a single parentless commit; a new
\* tip appears only by the push of the running writer, is that writer's own
\* orphan commit (a commit the other writer's clone does not hold) and is
\* put on an absent branch, so the tip never combines the commits of both
\* and the later successful push is the one that stays; a writer whose push
\* is rejected records the failure of its attempt and stays within
\* maxAttempts attempts.
C17_LaterPushWins ==
    [][/\ OnRemote(TargetBranch)
            => ParentCount(RemoteTip) = 0 /\ HistoryLen(RemoteTip) = 1
       /\ attempt \in 0..maxAttempts
       /\ race.other.attempt \in 0..maxAttempts
       /\ TargetTipChanged
            => /\ WriterStep
               /\ pc = "cp_push"
               /\ TargetBranch \notin DOMAIN remote
               /\ remote'[TargetBranch] = repo.branches[TargetBranch]
               /\ remote'[TargetBranch].anc = {}
               /\ remote'[TargetBranch].id \notin LocalCommitIds(race.other.repo)
       /\ (WriterStep /\ pc = "cp_push" /\ pc' = "catch")
            => /\ lastError' = [step |-> "push", attempt |-> attempt]
               /\ remote' = remote]_vars

\* without any injected failure: the running writer's first push was
\* rejected because the other writer had pushed; it retried, deleted the
\* other's commit and pushed its own, and both calls returned
C17_Witness ==
    /\ race.active
    /\ faults = MaxFaults - RaceFaults
    /\ Returned
    /\ attempt = 2
    /\ lastError = [step |-> "push", attempt |-> 1]
    /\ race.other.outcome = "returned"
    /\ OnRemote(TargetBranch)
    /\ RemoteTip = repo.branches[TargetBranch]
    /\ ParentCount(RemoteTip) = 0

\* ---------------------------------------------------------------- C21
\* the backup of this attempt failed: the catch of backupExistingBranch ran
\* and no complete copy was made (first attempt of the first call)
BackupFailedThisAttempt ==
    /\ calls = 1 /\ attempt = 1
    /\ opts.needBackup
    /\ callLog.fallbacks /\ ~callLog.backedUp
\* C21: when copying the existing branch into the backup directory fails,
\* also after some files were copied, the attempt goes on as if the branch
\* had been empty: after the restore step no file of the old branch is in
\* the work tree, so contentProcessor receives null.
C21_FailedBackupRestoresNothing ==
    (BackupFailedThisAttempt /\ pc = "write")
        => /\ FilePath \notin DOMAIN repo.wt
           /\ OtherFile \notin DOMAIN repo.wt

\* ---------------------------------------------------------------- C22
BackupReturns == pc \in BackupProbePcs \cup BackupGuardedPcs /\ pc' = "del_loop"
NoTempBackupBranch(r) == \A i \in DOMAIN TempBackupNames : TempBackupNames[i] \notin DOMAIN r.branches
\* C22: whenever backupExistingBranch returns (on success, on internal
\* failure, when the remote branch does not exist) the clone is on the
\* caller's masterBranch and no temp_backup_* local branch exists.
C22_BackupReturnsOnMaster ==
    [][BackupReturns
         => repo'.head = opts.masterBranch /\ NoTempBackupBranch(repo')]_vars

\* C22 (amended): backupExistingBranch returns in one of three ways.  When
\* the remote branch does not exist it returns without touching the clone.
\* When checkout(masterBranch) and the deletion of the temporary branch
\* succeed it returns on masterBranch with the temporary branch gone.
\* Otherwise it returns from the fallback: on the placeholder orphan branch
\* (with the temporary branch left only when its deletion failed), or, when
\* the placeholder could not be created, with the clone as it was.
C22_BackupReturnState ==
    [][BackupReturns
         => \/ pc = "bk_ls" /\ repo' = repo /\ ~GitListRemote(remote, TargetBranch)
            \/ /\ pc = "bk_fin_delete"
               /\ repo'.head = opts.masterBranch
               /\ TempBackupBranch \notin DOMAIN repo'.branches
            \/ /\ pc = "bk_fin_delete2"
               /\ repo'.head = BackupPlaceholder
               /\ TempBackupBranch \in DOMAIN repo'.branches => faults' > faults
            \/ pc = "bk_fin_reset" /\ repo'.head = BackupPlaceholder /\ faults' > faults
            \/ /\ pc = "bk_fin_orphan"
               /\ repo' = repo
               /\ faults' > faults \/ ~GitCheckoutOrphanOk(repo, BackupPlaceholder)]_vars

\* the backup of an existing remote branch has returned on the placeholder
\* orphan branch, not on masterBranch
C22_Witness ==
    /\ pc = "del_loop"
    /\ delIdx = 1
    /\ attempt = 1
    /\ opts.needBackup
    /\ TargetBranch \in DOMAIN remote
    /\ repo.head = BackupPlaceholder
    /\ TempBackupBranch \notin DOMAIN repo.branches

\* ======================================================================
\* safeWriteToBranch with two branches in branchesToDeleteBeforeWrite: the
\* target and one more branch, which the remote holds or not.
\* ======================================================================
OtherBranch == "stale"
DeleteLists == {<<OtherBranch, TargetBranch>>, <<TargetBranch, OtherBranch>>}
DeleteRemotes(base) ==
    InitialRemotes(base)
    \cup { Put(rem, OtherBranch, MkCommit(3, Put(EmptyMap, OtherFile, OtherContent), {})) :
             rem \in InitialRemotes(base) }
InitDelete ==
    \E base \in {"main", "master"} : \E rem \in DeleteRemotes(base) :
    \E list \in DeleteLists : \E needBackup \in BOOLEAN :
        /\ remote = rem
        /\ repo = FreshClone(rem, base)
        /\ disk = EmptyMap
        /\ opts = [masterBranch |-> base, needBackup |-> needBackup,
                   branchesToDelete |-> list, useProcessor |-> TRUE, hook |-> TRUE]
        /\ pc = "idle"
        /\ attempt = 0
        /\ lastError = NoError
        /\ delIdx = 1
        /\ succeeded = FALSE
        /\ outcome = "none"
        /\ thrownMsg = NoError
        /\ calls = MaxCalls - 1
        /\ faults = 0
        /\ nextId = 4
        /\ tipAtStart = <<>>
        /\ written = <<>>
        /\ callLog = EmptyLog
        /\ pub = NoRun
        /\ trk = NoTracking
        /\ race = NoRace
        /\ fn = NoCall

SpecDelete == InitDelete /\ [][Next]_vars

\* ---------------------------------------------------------------- C23
DeletePcs == {"del_loop", "del_checkout", "del_orphan", "del_reset", "del_push", "del_local"}
DeleteDone == delIdx = Len(opts.branchesToDelete) + 1
\* C23: in every attempt, whatever the backup did, deleteBranches runs for
\* every branch of branchesToDeleteBeforeWrite: an attempt that has failed
\* has been through the whole delete loop.
C23_DeleteRunsInEveryAttempt ==
    pc = "catch" => DeleteDone

\* C23 (amended): in every attempt in which the backup step returned or was
\* not asked for, deleteBranches goes through every listed branch in order;
\* for each it issues push --delete (which removes the branch from the
\* remote when the remote holds it and the command does not fail) and then
\* the forced local delete, whatever the push --delete did; it never throws,
\* and it is left only after the last branch.  An attempt that the fetch or
\* the remote listing of the backup aborts deletes nothing.
C23_DeleteLoop ==
    [][/\ pc \in DeletePcs => pc' \in DeletePcs \cup {"orph_checkout"}
       /\ (pc \in DeletePcs /\ pc' = "orph_checkout") => DeleteDone
       /\ (pc = "del_loop" /\ ~DeleteDone) => pc' = "del_checkout" /\ delIdx' = delIdx
       /\ pc = "del_push"
            => /\ pc' = "del_local" /\ delIdx' = delIdx
               /\ (faults' = faults /\ BranchToDelete \in DOMAIN remote)
                    => remote' = Del(remote, BranchToDelete)
               /\ remote' \in {remote, Del(remote, BranchToDelete)}
       /\ pc = "del_local"
            => /\ pc' = "del_loop" /\ delIdx' = delIdx + 1
               /\ (faults' = faults /\ BranchToDelete # repo.head)
                    => BranchToDelete \notin DOMAIN repo'.branches
       /\ (pc \in BackupProbePcs /\ pc' = "catch") => delIdx = 1 /\ remote' = remote]_vars

\* the deletion of the first listed branch failed and the second one was
\* deleted all the same
C23_Witness ==
    /\ pc = "orph_checkout"
    /\ attempt = 1
    /\ opts.branchesToDelete = <<OtherBranch, TargetBranch>>
    /\ DeleteDone
    /\ OtherBranch \in DOMAIN remote
    /\ tipAtStart # <<>>
    /\ TargetBranch \notin DOMAIN remote

\* ---------------------------------------------------------------- C24
WriteDone == pc = "write" /\ pc' \in {"hook", "cp_add"}
OnDisk(r) == IF FilePath \in DOMAIN r.wt THEN <<r.wt[FilePath]>> ELSE <<>>
\* C24: with a contentProcessor, writeFileContent hands it the content of
\* the file on disk (null when the file is absent) and writes what it
\* returns, not fileContent; without one it writes fileContent.
C24_ProcessorGetsDiskContent ==
    [][WriteDone
         => repo'.wt = Put(repo.wt, FilePath,
                           IF opts.useProcessor THEN Processor(OnDisk(repo)) ELSE NewData)]_vars

\* C24 (amended): as C24, and the processor also receives null when the
\* file exists but reading it fails; nothing but the file is written.
C24_ProcessorGetsDiskContentOrNull ==
    [][WriteDone
         => \/ repo'.wt = Put(repo.wt, FilePath,
                              IF opts.useProcessor THEN Processor(OnDisk(repo)) ELSE NewData)
            \/ /\ opts.useProcessor
               /\ FilePath \in DOMAIN repo.wt
               /\ faults' > faults
               /\ repo'.wt = Put(repo.wt, FilePath, Processor(<<>>))]_vars

\* the processor was given the restored backup content and the file holds
\* the old records followed by the new ones
C24_Witness ==
    /\ pc \in {"hook", "cp_add"}
    /\ attempt = 1 /\ calls = 1
    /\ opts.useProcessor
    /\ callLog.backedUp
    /\ FilePath \in DOMAIN repo.wt
    /\ repo.wt[FilePath] = OldContent \o NewData
    /\ written = <<OldContent \o NewData>>

StatusListsFile(r) == r.index # HeadTree(r) \/ r.wt # r.index
C27_BaseCheckoutFailureNotFatal ==
    [][/\ pc = "bk_fin_checkout"
            => \/ pc' = "bk_fin_delete" /\ repo'.head = opts.masterBranch
               \/ pc' = "bk_fin_orphan" /\ repo' = repo
       /\ pc = "bk_fin_orphan"
            => \/ pc' = "bk_fin_reset" /\ repo'.head = BackupPlaceholder
               \/ pc' = "del_loop" /\ repo' = repo
       /\ pc = "del_checkout"
            => \/ pc' = "del_push" /\ repo'.head = MainLiteral
               \/ pc' = "del_orphan" /\ repo' = repo
       /\ pc = "del_orphan"
            => \/ pc' = "del_reset" /\ repo'.head = DeletePlaceholder
               \/ pc' = "del_push" /\ repo' = repo
       /\ pc = "orph_checkout"
            => /\ pc' = "orph_orphan"
               /\ repo'.head = opts.masterBranch \/ repo' = repo
       /\ (pc = "orph_orphan" /\ faults' = faults /\ TargetBranch \notin DOMAIN repo.branches)
            => pc' = "orph_reset" /\ repo'.head = TargetBranch
       /\ lastError'.step \notin {"checkout master", "checkout main"}]_vars

\* the cleanup of the backup ended on its placeholder branch and the
\* checkout of masterBranch in createOrphanBranch failed as well; the
\* attempt is at checkout --orphan of the target
C27_Witness ==
    /\ pc = "orph_orphan"
    /\ attempt = 1
    /\ opts.needBackup
    /\ TargetBranch \in DOMAIN remote
    /\ repo.head = BackupPlaceholder
    /\ TargetBranch \notin DOMAIN repo.branches
    /\ lastError = NoError

\* ======================================================================
\* Functions evaluated on their own: the arguments are drawn in the initial
\* state, the statements of the function are the steps; no writer, publisher
\* or tracking run is under way meanwhile.
\* ======================================================================
fnVars == <<remote, repo, disk, opts, pc, attempt, lastError, delIdx, succeeded,
            outcome, thrownMsg, calls, faults, nextId, tipAtStart, written, callLog,
            pub, trk, race>>
NothingElseRuns ==
    /\ remote = Put(EmptyMap, "main", BaseCommit)
    /\ repo = FreshClone(remote, "main")
    /\ disk = EmptyMap
    /\ opts = [masterBranch |-> "main", needBackup |-> FALSE,
               branchesToDelete |-> <<>>, useProcessor |-> FALSE, hook |-> FALSE]
    /\ pc = "idle"
    /\ attempt = 0
    /\ lastError = NoError
    /\ delIdx = 1
    /\ succeeded = FALSE
    /\ outcome = "none"
    /\ thrownMsg = NoError
    /\ calls = 0
    /\ faults = 0
    /\ nextId = 4
    /\ tipAtStart = <<>>
    /\ written = <<>>
    /\ callLog = EmptyLog
    /\ pub = NoRun
    /\ trk = NoTracking
    /\ race = NoRace

\* ----------------------------------------------------------------------
\* contentProcessor of mergeTrackingDataAndPushToDatabaseRepo (the same
\* closure is passed by process.ts)
\* ----------------------------------------------------------------------
MaxOldReports == 2  \* records in the file of the branch
MaxNewReports == 2  \* records of the group being appended

ReportIds == {"r1", "r2", "r3"}
SeqsUpTo(S, n) == UNION { [1..k -> S] : k \in 0..n }

\* JSON values: an array of records, or something that is not an array
JsonArray(items) == [array |-> items]
NonArrays == { [object |-> "o"], [number |-> 7], [literal |-> "null"] }
\* Array.isArray(parsed)
IsArray(v) == "array" \in DOMAIN v

\* texts that are not JSON
EmptyString == [raw |-> ""]
NotJsonTexts == { [raw |-> "[r1,"], [raw |-> " "] }

\* oldContent: string | null, null being <<>>
OldContents ==
    {<<>>, <<EmptyString>>}
      \cup { <<t>> : t \in NotJsonTexts }
      \cup { <<JsonStringify(v)>> : v \in NonArrays }
      \cup { <<JsonStringify(JsonArray(s))>> : s \in SeqsUpTo(ReportIds, MaxOldReports) }

\* if (oldContent): null and '' are falsy
Truthy(old) == old # <<>> /\ old[1] # EmptyString

\* catch (e) { console.error(...) } around JSON.parse: existingReports
\* stays []
\* (mutant: the parse error leaves the processor)
ParseErrorThrown(f) == [f EXCEPT !.at = "thrown"]
ParseErrorCaught(f) == [f EXCEPT !.at = "merge"]

\* [...existingReports, ...newReports]
\* (mutant: the new records first)
MergedNewFirst(existing, new) == new \o existing
MergedReports(existing, new) == existing \o new

InitProcessor ==
    /\ NothingElseRuns
    /\ \E old \in OldContents : \E new \in SeqsUpTo(ReportIds, MaxNewReports) :
         fn = [of |-> "contentProcessor", at |-> "if", oldContent |-> old,
               newReports |-> new, parsed |-> <<>>, existingReports |-> <<>>,
               result |-> <<>>]

\* let existingReports = []; if (oldContent) {
CpTest ==
    /\ fn.of = "contentProcessor" /\ fn.at = "if"
    /\ fn' = [fn EXCEPT !.at = IF Truthy(fn.oldContent) THEN "parse" ELSE "merge"]
    /\ UNCHANGED fnVars

\* try { const parsed = JSON.parse(oldContent)
CpParse ==
    /\ fn.of = "contentProcessor" /\ fn.at = "parse"
    /\ fn' = IF ParsesAsJson(fn.oldContent[1])
               THEN [fn EXCEPT !.at = "isArray", !.parsed = <<JsonParse(fn.oldContent[1])>>]
               ELSE ParseErrorCaught(fn)
    /\ UNCHANGED fnVars

\* if (Array.isArray(parsed)) existingReports = parsed; else console.warn
CpIsArray ==
    /\ fn.of = "contentProcessor" /\ fn.at = "isArray"
    /\ fn' = [fn EXCEPT !.at = "merge",
                        !.existingReports = IF IsArray(fn.parsed[1])
                                              THEN fn.parsed[1].array ELSE @]
    /\ UNCHANGED fnVars

\* const mergedReports = [...existingReports, ...newReports];
\* return JSON.stringify(mergedReports, null, 2)
CpMerge ==
    /\ fn.of = "contentProcessor" /\ fn.at = "merge"
    /\ fn' = [fn EXCEPT !.at = "returned",
                        !.result = <<JsonStringify(JsonArray(
                                       MergedReports(fn.existingReports, fn.newReports)))>>]
    /\ UNCHANGED fnVars

NextProcessor ==
    \/ CpTest
    \/ CpParse
    \/ CpIsArray
    \/ CpMerge

SpecProcessor == InitProcessor /\ [][NextProcessor]_vars

\* ---------------------------------------------------------------- C28
\* the records an old content holds: those of the JSON array it is the text
\* of, none when it is null, empty, not JSON or JSON that is not an array
IsJsonArrayText(old) ==
    old # <<>> /\ "json" \in DOMAIN old[1] /\ "array" \in DOMAIN old[1].json
\* C28: the processor never throws, and what it returns is the JSON text of
\* the old records followed by the new records, in order, when the old
\* content is the text of a JSON array, and of the new records alone when
\* the old content is null, empty, unparseable or not an array.
C28_OldThenNew ==
    /\ fn.at # "thrown"
    /\ fn.at = "returned"
         => /\ fn.result # <<>>
            /\ ParsesAsJson(fn.result[1])
            /\ IsArray(JsonParse(fn.result[1]))
            /\ JsonParse(fn.result[1]).array =
                 IF IsJsonArrayText(fn.oldContent)
                   THEN fn.oldContent[1].json.array \o fn.newReports
                   ELSE fn.newReports

\* an unparseable old content was met and the new records came back alone
C28_Witness ==
    /\ fn.at = "returned"
    /\ fn.oldContent = <<[raw |-> "[r1,"]>>
    /\ fn.newReports = <<"r2", "r1">>
    /\ fn.result = <<JsonStringify(JsonArray(<<"r2", "r1">>))>>

\* ----------------------------------------------------------------------
\* the filter and merge of
\* mergeNewReportAndClearNoneTodayDataThenPushToDownloadRepo, on every pair
\* of old data and new reports
\* ----------------------------------------------------------------------
MaxReports == 2     \* reports of one train number in the old data or in the new
DayLength == 10     \* timestamps of one Beijing day: DayLength * day and the next ones

\* getBeijingTimeString(report.reportTimestamp, 'date')
BeijingDateOf(ts) == ts \div DayLength
ReportAt(uuid, ts) == Report(uuid, BeijingDateOf(ts), ts)
OtherTrainNo == "D2"
\* timestamps of the last moment of yesterday and of two moments of today
Yesterday(today) == DayLength * today - 1
Morning(today) == DayLength * today + 1
Noon(today) == DayLength * today + 2
SomeReports(today) ==
    { ReportAt(u, ts) : u \in {"a", "b"}, ts \in {Yesterday(today), Morning(today), Noon(today)} }
      \ {ReportAt("b", Noon(today))}
\* the reports of the first train number: any list; of the second: one of
\* the given lists, or the train number is not in the data
ReportDataSets(today, seconds) ==
    { Overlay(first, second) :
        first \in {EmptyMap} \cup { Put(EmptyMap, TrainNo, s) :
                                      s \in SeqsUpTo(SomeReports(today), MaxReports) },
        second \in {EmptyMap} \cup { Put(EmptyMap, OtherTrainNo, s) : s \in seconds } }
\* oldReportData: the second train number with an empty list, with a report
\* of yesterday, or with one of today
OldReportDataSets(today) ==
    ReportDataSets(today, {<<>>, <<ReportAt("a", Yesterday(today))>>,
                           <<ReportAt("b", Morning(today))>>})
\* validReports: the second train number with a report of today
NewReportDataSets(today) == ReportDataSets(today, {<<ReportAt("b", Morning(today))>>})

\* currentBeijingDate is the day of the call
InitMergeData ==
    /\ NothingElseRuns
    /\ \E today \in 1..MaxDay :
       \E old \in OldReportDataSets(today) : \E new \in NewReportDataSets(today) :
         fn = [of |-> "merge", at |-> "filterOld", currentBeijingDate |-> today,
               oldReportData |-> old, validReports |-> new,
               filteredOldData |-> EmptyMap, filteredNewData |-> EmptyMap,
               mergeReportData |-> EmptyMap]

\* for (const [trainNumber, reports] of Object.entries(oldReportData))
MdFilterOld ==
    /\ fn.of = "merge" /\ fn.at = "filterOld"
    /\ fn' = [fn EXCEPT !.at = "filterNew",
                        !.filteredOldData = FilterData(fn.oldReportData, fn.currentBeijingDate)]
    /\ UNCHANGED fnVars

\* for (const [trainNumber, reports] of Object.entries(validReports))
MdFilterNew ==
    /\ fn.of = "merge" /\ fn.at = "filterNew"
    /\ fn' = [fn EXCEPT !.at = "merge",
                        !.filteredNewData = FilterData(fn.validReports, fn.currentBeijingDate)]
    /\ UNCHANGED fnVars

\* for (const trainNumber of allTrainNumbers) { uuidSet ...; sort }
MdMerge ==
    /\ fn.of = "merge" /\ fn.at = "merge"
    /\ fn' = [fn EXCEPT !.at = "merged",
                        !.mergeReportData = MergeReportData(fn.filteredOldData,
                                                            fn.filteredNewData)]
    /\ UNCHANGED fnVars

NextMergeData ==
    \/ MdFilterOld
    \/ MdFilterNew
    \/ MdMerge

SpecMergeData == InitMergeData /\ [][NextMergeData]_vars

\* ---------------------------------------------------------------- C30
\* the reports of today that a train number has in a data set, in order
TodayOf(data, t) ==
    SelectSeq(ReportsOf(data, t), LAMBDA r : BeijingDateOf(r.reportTimestamp) = fn.currentBeijingDate)
\* the first report of the list with the given reportUuid
FirstWithUuid(reports, u) ==
    reports[CHOOSE i \in 1..Len(reports) :
              /\ reports[i].reportUuid = u
              /\ \A j \in 1..(i - 1) : reports[j].reportUuid # u]
\* C30: in the merged data every train number has at least one report,
\* every report is of today, no two reports of a train number have the same
\* reportUuid, the reports are in ascending order of reportTimestamp, a
\* report whose reportUuid one of today's old reports has is that old report,
\* and a train number is in the result exactly when it has a report of
\* today in the old or in the new data.
C30_MergedData ==
    fn.at = "merged" =>
      LET md == fn.mergeReportData
      IN /\ \A t \in DOMAIN md :
              /\ md[t] # <<>>
              /\ \A i \in 1..Len(md[t]) :
                   /\ BeijingDateOf(md[t][i].reportTimestamp) = fn.currentBeijingDate
                   /\ \A j \in (i + 1)..Len(md[t]) :
                        /\ md[t][i].reportUuid # md[t][j].reportUuid
                        /\ md[t][i].reportTimestamp <= md[t][j].reportTimestamp
                   /\ LET u == md[t][i].reportUuid
                          oldToday == TodayOf(fn.oldReportData, t)
                      IN IF \E k \in 1..Len(oldToday) : oldToday[k].reportUuid = u
                           THEN md[t][i] = FirstWithUuid(oldToday, u)
                           ELSE \E k \in 1..Len(TodayOf(fn.validReports, t)) :
                                  TodayOf(fn.validReports, t)[k] = md[t][i]
         /\ \A t \in {TrainNo, OtherTrainNo} :
              t \in DOMAIN md <=> \/ TodayOf(fn.oldReportData, t) # <<>>
                                  \/ TodayOf(fn.validReports, t) # <<>>

\* the old data hold a report of yesterday and one of today, the new
\* reports repeat the reportUuid of the old one with another timestamp and
\* add an earlier one; the second train number has lost its only report
C30_Witness ==
    /\ fn.at = "merged"
    /\ fn.currentBeijingDate = 1
    /\ fn.oldReportData = Overlay(Put(EmptyMap, TrainNo, <<ReportAt("b", 9), ReportAt("a", 12)>>),
                                  Put(EmptyMap, OtherTrainNo, <<ReportAt("a", 9)>>))
    /\ fn.validReports = Put(EmptyMap, TrainNo, <<ReportAt("a", 11), ReportAt("b", 11)>>)
    /\ fn.mergeReportData = Put(EmptyMap, TrainNo, <<ReportAt("b", 11), ReportAt("a", 12)>>)

\* ----------------------------------------------------------------------
\* encodeAndSave and pushToGiteeRepo: the blob gdcj.<version>.msgpack.zst
\* and the pointer gdcj.version.json, pushed to the Gitee repository. The
\* repository and its clone are fn.gitee and fn.repo.
\* ----------------------------------------------------------------------
\* getBeijingDateTime(), one string per second, in the order of time
VersionStrings == <<"t0", "t1", "t2", "t3", "t4">>
\* `gdcj.${versionString}.msgpack.zst`
GdcjFileNames ==
    <<"gdcj.t0.msgpack.zst", "gdcj.t1.msgpack.zst", "gdcj.t2.msgpack.zst",
      "gdcj.t3.msgpack.zst", "gdcj.t4.msgpack.zst">>
\* path.join('data', 'gdcj', gzFileName) and (.., versionFileName)
GdcjBlobPaths ==
    <<"data/gdcj/gdcj.t0.msgpack.zst", "data/gdcj/gdcj.t1.msgpack.zst",
      "data/gdcj/gdcj.t2.msgpack.zst", "data/gdcj/gdcj.t3.msgpack.zst",
      "data/gdcj/gdcj.t4.msgpack.zst">>
GdcjVersionPath == "data/gdcj/gdcj.version.json"
\* the TrainDetailMap a call is handed
TrainDetailMaps == {"detailA", "detailB"}

\* const versionData = { _version: versionString, _fileName: fileName }
\* (mutant: the pointer keeps the name of the first blob)
GdcjVersionDataFirstBlob(clock) ==
    [_version |-> VersionStrings[clock], _fileName |-> GdcjFileNames[1]]
GdcjVersionData(clock) ==
    [_version |-> VersionStrings[clock], _fileName |-> GdcjFileNames[clock]]

\* the Gitee repository before the first call: the default branch alone, or
\* with the blob and the pointer of an earlier publish
InitialGiteeCommit ==
    MkCommit(2, Put(Put(Put(EmptyMap, BaseFile, BaseContent),
                        GdcjBlobPaths[1], Encode("detailA")),
                    GdcjVersionPath, JsonStringify(GdcjVersionData(1))), {1})
InitialGitees ==
    { Put(EmptyMap, GITEE_MASTER_BRANCH, BaseCommit),
      Put(EmptyMap, GITEE_MASTER_BRANCH, InitialGiteeCommit) }

InitEncode ==
    /\ remote = Put(EmptyMap, MASTER_BRANCH, BaseCommit)
    /\ repo = FreshClone(remote, MASTER_BRANCH)
    /\ disk = EmptyMap
    /\ opts = [masterBranch |-> MASTER_BRANCH, needBackup |-> FALSE,
               branchesToDelete |-> <<>>, useProcessor |-> FALSE, hook |-> FALSE]
    /\ pc = "p_idle"
    /\ attempt = 0
    /\ lastError = NoError
    /\ delIdx = 1
    /\ succeeded = FALSE
    /\ outcome = "none"
    /\ thrownMsg = NoError
    /\ calls = 0
    /\ faults = 0
    /\ nextId = 4
    /\ tipAtStart = <<>>
    /\ written = <<>>
    /\ callLog = EmptyLog
    /\ pub = [NoRun EXCEPT !.run = MaxRuns]
    /\ trk = NoTracking
    /\ race = NoRace
    /\ \E g \in InitialGitees :
         fn = [of |-> "encodeAndSave", at |-> "idle", run |-> 0, clock |-> 1,
               status |-> "idle", result |-> "detailA", gitee |-> g,
               repo |-> FreshClone(g, GITEE_MASTER_BRANCH),
               blobFile |-> <<>>, versionFile |-> <<>>, nextId |-> 4]

esVars == <<remote, repo, disk, opts, pc, attempt, lastError, delIdx, succeeded,
            outcome, thrownMsg, calls, nextId, tipAtStart, written, callLog,
            pub, trk, race>>
EsAt(at) == fn.of = "encodeAndSave" /\ fn.at = at
\* catch (error) { console.error(...); throw error; }
EsThrow(f) == [f EXCEPT !.at = "idle", !.status = "failed"]

\* encodeAndSave up to the call of pushToGiteeRepo: the blob file, then the
\* version file, in the local data directory
EsEncode ==
    /\ EsAt("idle")
    /\ fn.run < MaxRuns
    /\ \E result \in TrainDetailMaps : \E tick \in {0, 1} : \E how \in StepChoices :
         /\ BumpHow(how)
         /\ LET clock == fn.clock + tick
                started == [fn EXCEPT !.run = @ + 1, !.clock = clock, !.result = result,
                                      !.status = "running"]
                blob == [started EXCEPT !.blobFile = <<Encode(result)>>]
            IN fn' = CASE how = "early" -> EsThrow(started)
                       [] how = "late" -> EsThrow(blob)
                       [] how = "ok" ->
                            [blob EXCEPT !.at = "clone",
                                         !.versionFile =
                                            <<JsonStringify(GdcjVersionData(clock))>>]
    /\ UNCHANGED esVars

\* rmSync of a stale tempDir, git.clone(giteeUrl, tempDir)
EsClone ==
    /\ EsAt("clone")
    /\ \E inj \in Inject :
         /\ Bump(inj)
         /\ fn' = IF inj THEN EsThrow(fn)
                  ELSE [fn EXCEPT !.at = "copy",
                                  !.repo = FreshClone(fn.gitee, GITEE_MASTER_BRANCH)]
    /\ UNCHANGED esVars

\* fs.copyFileSync(gzFilePath, ...); fs.copyFileSync(versionFilePath, ...)
EsCopy ==
    /\ EsAt("copy")
    /\ \E how \in StepChoices :
         /\ BumpHow(how)
         /\ LET blob == WriteFile(fn.repo, GdcjBlobPaths[fn.clock], fn.blobFile[1])
                both == WriteFile(blob, GdcjVersionPath, fn.versionFile[1])
            IN fn' = CASE how = "early" -> EsThrow(fn)
                       [] how = "late" -> EsThrow([fn EXCEPT !.repo = blob])
                       [] how = "ok" -> [fn EXCEPT !.at = "add_blob", !.repo = both]
    /\ UNCHANGED esVars

\* repoGit.add(path.join('data', 'gdcj', gzFileName))
EsAddBlob ==
    /\ EsAt("add_blob")
    /\ \E inj \in Inject :
         /\ Bump(inj)
         /\ fn' = IF inj THEN EsThrow(fn)
                  ELSE [fn EXCEPT !.at = "add_version",
                                  !.repo = GitAddPath(@, GdcjBlobPaths[fn.clock])]
    /\ UNCHANGED esVars

\* repoGit.add(path.join('data', 'gdcj', versionFileName))
EsAddVersion ==
    /\ EsAt("add_version")
    /\ \E inj \in Inject :
         /\ Bump(inj)
         /\ fn' = IF inj THEN EsThrow(fn)
                  ELSE [fn EXCEPT !.at = "commit", !.repo = GitAddPath(@, GdcjVersionPath)]
    /\ UNCHANGED esVars

\* repoGit.commit(`添加 ${gzFileName} 和 ${versionFileName}`)
EsCommit ==
    /\ EsAt("commit")
    /\ \E inj \in Inject :
         /\ Bump(inj)
         /\ fn' = IF inj THEN EsThrow(fn)
                  ELSE [fn EXCEPT !.at = "push",
                                  !.repo = GitCommitIfStaged(@, fn.nextId),
                                  !.nextId = @ + 1]
    /\ UNCHANGED esVars

\* repoGit.push(), then the removal of tempDir
EsPush ==
    /\ EsAt("push")
    /\ \E inj \in Inject :
         /\ Bump(inj)
         /\ fn' = IF inj \/ ~GitPushOk(fn.repo, fn.gitee, GITEE_MASTER_BRANCH)
                  THEN EsThrow(fn)
                  ELSE [fn EXCEPT !.at = "idle", !.status = "done",
                                  !.gitee = GitPushRemote(fn.repo, @, GITEE_MASTER_BRANCH),
                                  !.repo = GitPushRepo(@, GITEE_MASTER_BRANCH)]
    /\ UNCHANGED esVars

NextEncode ==
    \/ EsEncode
    \/ EsClone
    \/ EsCopy
    \/ EsAddBlob
    \/ EsAddVersion
    \/ EsCommit
    \/ EsPush

\* the two publishers of a version pointer, each on its own repository:
\* either runs of the download-repository publisher, or calls of
\* encodeAndSave
InitPointers == InitPublish \/ InitEncode
NextPointers == NextPublish \/ NextEncode
SpecPointers == InitPointers /\ [][NextPointers]_vars

\* ---------------------------------------------------------------- C29
\* the pointer the Gitee repository shows
GiteePointer(g) ==
    IF GdcjVersionPath \in DOMAIN g[GITEE_MASTER_BRANCH].tree
    THEN <<JsonParse(g[GITEE_MASTER_BRANCH].tree[GdcjVersionPath])>>
    ELSE <<>>
\* the pointers whose two fields are of one publish
WholeDownloadPointers ==
    { [_version |-> DownloadBranchNames[k], _fileName |-> DataFile] :
        k \in 1..Len(DownloadBranchNames) }
WholeGdcjPointers ==
    { [_version |-> VersionStrings[k], _fileName |-> GdcjFileNames[k]] :
        k \in 1..Len(VersionStrings) }
\* C29: a pointer on a remote always has both fields of one publish. In the
\* download repository the pointer changes only by the push of
\* updateVersionBranch, to the branch name and file name of the running
\* publish. In the Gitee repository the pointer changes only by the push of
\* pushToGiteeRepo, to the version string and blob name of the running call,
\* and the commit that carries it holds under that name the blob the call
\* has encoded, which the commit before did not hold; the blob a pointer
\* names is always in the tree of the pointer.
C29_PointerWhole ==
    /\ [](fn.of = "none" => \A i \in 1..Len(PointerNow) : PointerNow[i] \in WholeDownloadPointers)
    /\ [](fn.of = "encodeAndSave"
            => \A i \in 1..Len(GiteePointer(fn.gitee)) :
                 LET ptr == GiteePointer(fn.gitee)[i]
                 IN /\ ptr \in WholeGdcjPointers
                    /\ \E k \in 1..Len(GdcjFileNames) :
                         /\ ptr._fileName = GdcjFileNames[k]
                         /\ GdcjBlobPaths[k] \in DOMAIN fn.gitee[GITEE_MASTER_BRANCH].tree)
    /\ [][/\ (fn.of = "none" /\ RemotePointer(remote') # RemotePointer(remote))
             => /\ VersionPushStep
                /\ RemotePointer(remote') =
                     <<[_version |-> NewBranchName, _fileName |-> DataFile]>>
          /\ (fn.of = "encodeAndSave" /\ GiteePointer(fn'.gitee) # GiteePointer(fn.gitee))
             => LET before == fn.gitee[GITEE_MASTER_BRANCH]
                    after == fn'.gitee[GITEE_MASTER_BRANCH]
                IN /\ fn.at = "push" /\ fn'.status = "done"
                   /\ after.anc = before.anc \cup {before.id}
                   /\ GiteePointer(fn'.gitee) =
                        <<[_version |-> VersionStrings[fn.clock],
                           _fileName |-> GdcjFileNames[fn.clock]]>>
                   /\ after.tree = Put(Put(before.tree, GdcjBlobPaths[fn.clock],
                                           Encode(fn.result)),
                                       GdcjVersionPath,
                                       JsonStringify([_version |-> VersionStrings[fn.clock],
                                                      _fileName |-> GdcjFileNames[fn.clock]]))
                   /\ GdcjBlobPaths[fn.clock] \notin DOMAIN before.tree]_vars

\* a second call of encodeAndSave, a second later, has replaced the pointer
\* of the first and both blobs are in the repository
C29_Witness ==
    /\ fn.of = "encodeAndSave"
    /\ fn.status = "done"
    /\ fn.run = 2
    /\ fn.clock = 3
    /\ GiteePointer(fn.gitee) = <<[_version |-> "t2", _fileName |-> "gdcj.t2.msgpack.zst"]>>
    /\ {GdcjBlobPaths[2], GdcjBlobPaths[3]} \subseteq DOMAIN fn.gitee[GITEE_MASTER_BRANCH].tree
    /\ HistoryLen(fn.gitee[GITEE_MASTER_BRANCH]) >= 3

\* ---------------------------------------------------------------- C31
\* the download branches of the remote, in the order git lists them
RemoteDownloadBranches(rem) == SelectSeq(DownloadBranchNames, LAMBDA b : b \in DOMAIN rem)
\* the latest download branch holds the empty data set {}
LatestDataIsEmpty(rem) ==
    LET bs == RemoteDownloadBranches(rem)
    IN /\ bs # <<>>
       /\ DataFile \in DOMAIN rem[bs[Len(bs)]].tree
       /\ Decode(rem[bs[Len(bs)]].tree[DataFile]) = EmptyMap
\* the run has listed the download branches and the latest of them holds
\* the empty data set
RunFoundEmptyData ==
    /\ pub.status = "running"
    /\ pub.existing # <<>>
    /\ pub.existing = RemoteDownloadBranches(remote)
    /\ LatestDataIsEmpty(remote)
BranchRemoved(rem, rem2) == \E b \in DOMAIN rem : b \notin DOMAIN rem2
DataBranchAdded(rem, rem2) ==
    \E b \in DOMAIN rem2 : b \notin DOMAIN rem /\ DataFile \in DOMAIN rem2[b].tree
\* C31: the flags the run sets after the merge are those of the documented
\* cases, in their order: no download branch: create, delete nothing; new
\* reports: create and delete; old data and nothing left after the merge:
\* create (the empty data set) and delete; otherwise neither. A data branch
\* is pushed only under the create flag and holds the merged data, a branch
\* is removed only under the delete flag, and a run that has no new reports
\* and finds the latest download branch empty leaves the remote as it is.
C31_PublishDecision ==
    [][/\ pc = "p_merge"
            => LET hasOld == pub.existing # <<>>
                   hasNew == DOMAIN pub.input # {}
                   crossDay == DOMAIN pub.old # {} /\ DOMAIN pub'.merged = {}
               IN /\ pub'.create = (~hasOld \/ hasNew \/ crossDay)
                  /\ pub'.delete = (hasOld /\ (hasNew \/ crossDay))
                  /\ (crossDay /\ ~hasNew) => pub'.merged = EmptyMap
                  /\ pc' = IF pub'.create THEN "pn_checkout"
                           ELSE IF pub'.delete THEN "p_del" ELSE "p_cleanup"
       /\ DataBranchAdded(remote, remote')
            => /\ pub.create
               /\ remote'[NewBranchName].tree[DataFile] = Encode(pub.merged)
       /\ BranchRemoved(remote, remote') => pub.delete /\ pc = "p_del_push"
       /\ (pub.input = EmptyMap /\ RunFoundEmptyData) => remote' = remote]_vars

\* the first run found the data of the day before and no new report, and
\* published the empty data set; the second run, again without new reports,
\* has completed with neither flag set
C31_Witness ==
    /\ pc = "p_idle"
    /\ pub.status = "done"
    /\ pub.run = 2
    /\ pub.input = EmptyMap
    /\ ~pub.create /\ ~pub.delete
    /\ pub.existing = <<DownloadBranchNames[2]>>
    /\ LatestDataIsEmpty(remote)
    /\ DownloadBranchNames[1] \notin DOMAIN remote

\* ---------------------------------------------------------------- C32
\* C32: after every run that completes, the remote holds exactly one
\* download data branch.
C32_OneDownloadBranch ==
    pub.status = "done" => Len(RemoteDownloadBranches(remote)) = 1

\* ---------------------------------------------------------------- C33
\* C33: a download branch is removed from the remote only in a run whose
\* new data branch has been pushed and is on the remote, and the branch
\* removed is not the new one; so a remote that holds a download branch
\* holds one in the next state too.
C33_DeleteAfterDataPush ==
    [][/\ BranchRemoved(remote, remote')
            => /\ DataPushedThisRun
               /\ NewBranchName \in DOMAIN remote'
               /\ DataFile \in DOMAIN remote'[NewBranchName].tree
               /\ \A b \in DOMAIN remote : b \notin DOMAIN remote'
                       => \E i \in 1..Len(pub.existing) : pub.existing[i] = b
       /\ RemoteDownloadBranches(remote) # <<>> => RemoteDownloadBranches(remote') # <<>>
       /\ (pc \in {"pn_checkout", "pn_write", "pn_commit", "pn_push"} /\ pc' = "p_idle")
            => /\ pub'.status = "failed"
               /\ remote' = remote]_vars

\* the old branch has just been removed, the new one is on the remote
C33_Witness ==
    /\ pc = "p_cleanup"
    /\ pub.delete
    /\ pub.existing = <<DownloadBranchNames[1]>>
    /\ RemoteDownloadBranches(remote) = <<NewBranchName>>
    /\ DataPushedThisRun

\* ---------------------------------------------------------------- C34
\* C34: at the end of every run the data branch that the version pointer of
\* the remote names is on the remote.
C34_PointerTargetExists ==
    (pc = "p_idle" /\ pub.run > 0)
    => \A i \in 1..Len(PointerNow) : PointerNow[i]._version \in DOMAIN remote

\* ----------------------------------------------------------------------
\* scanTrainDelayReportFromUploaderRepo: the upload branches inside the time
\* window are checked out one by one, their report file is inspected, the
\* inspected branches are deleted. The uploader repository and its clone
\* are fn.up and fn.clone.
\* ----------------------------------------------------------------------
\* train-delay-upload_<timestamp>_<uuid>, as git lists them; the last one
\* carries a timestamp outside the window
DelayUploadBranchNames ==
    <<"train-delay-upload_1_a", "train-delay-upload_2_b", "train-delay-upload_old_c">>
StaleDelayBranch == "train-delay-upload_old_c"
\* branchTimestamp >= windowStart && branchTimestamp <= windowEnd
InDelayWindow(branch) == branch # StaleDelayBranch
\* path.join(tempDir, uploadType, `${uploadType}.json`)
DelayUploadFile == "train-delay-upload/train-delay-upload.json"

\* JSON values of a report file: an object is a record of typed values,
\* null is <<>>
RequiredFields ==
    {"userUuid", "reportUuid", "reportTimestamp", "trainNumber", "position", "delayTimeRange"}
Str(s) == [type |-> "string", v |-> s]
Num(s) == [type |-> "number", v |-> s]
DelayReport(branch) ==
    [userUuid |-> Str("u"), reportUuid |-> Str(branch), reportTimestamp |-> Num("1"),
     trainNumber |-> Str(IF branch = "train-delay-upload_2_b" THEN "D2" ELSE "G1"),
     position |-> Str("p"), delayTimeRange |-> Str("5-10")]
\* the report with a string for its timestamp, without its position, with
\* a seventh field
WrongTypeReport(branch) == [DelayReport(branch) EXCEPT !.reportTimestamp = Str("1")]
FiveFieldReport(branch) ==
    [f \in RequiredFields \ {"position"} |-> DelayReport(branch)[f]]
SevenFieldReport(branch) ==
    [f \in RequiredFields \cup {"extra"} |->
        IF f = "extra" THEN Str("x") ELSE DelayReport(branch)[f]]

\* (mutant: the types of the fields are not checked)
IsValidTrainDelayReportUntyped(data) ==
    /\ Cardinality(DOMAIN data) = Cardinality(RequiredFields)
    /\ RequiredFields \subseteq DOMAIN data
\* isValidTrainDelayReport: an object of exactly the six fields, five
\* strings and a number
IsValidTrainDelayReport(data) ==
    /\ Cardinality(DOMAIN data) = Cardinality(RequiredFields)
    /\ RequiredFields \subseteq DOMAIN data
    /\ \A f \in RequiredFields :
         data[f].type = IF f = "reportTimestamp" THEN "number" ELSE "string"

\* what an upload branch may hold
DelayUploadKinds ==
    {"valid", "wrongType", "fiveFields", "sevenFields", "null", "unparseable", "nofile"}
DelayUploadTree(branch, kind) ==
    CASE kind = "valid" -> Put(EmptyMap, DelayUploadFile, JsonStringify(DelayReport(branch)))
      [] kind = "wrongType" ->
           Put(EmptyMap, DelayUploadFile, JsonStringify(WrongTypeReport(branch)))
      [] kind = "fiveFields" ->
           Put(EmptyMap, DelayUploadFile, JsonStringify(FiveFieldReport(branch)))
      [] kind = "sevenFields" ->
           Put(EmptyMap, DelayUploadFile, JsonStringify(SevenFieldReport(branch)))
      [] kind = "null" -> Put(EmptyMap, DelayUploadFile, JsonStringify(<<>>))
      [] kind = "unparseable" -> Put(EmptyMap, DelayUploadFile, [raw |-> "{"])
      [] kind = "nofile" -> EmptyMap

\* the uploader repository before the scan: master, the branch outside the
\* window, and any of the two branches inside it
InitialDelayUploaders ==
    { [b \in {MASTER_BRANCH, StaleDelayBranch} \cup S |->
          IF b = MASTER_BRANCH THEN BaseCommit
          ELSE IF b = StaleDelayBranch THEN MkCommit(1, DelayUploadTree(b, "valid"), {})
          ELSE MkCommit(1, DelayUploadTree(b, k[b]), {})] :
      S \in SUBSET {"train-delay-upload_1_a", "train-delay-upload_2_b"},
      k \in [{"train-delay-upload_1_a", "train-delay-upload_2_b"} -> DelayUploadKinds] }

InitScan ==
    /\ NothingElseRuns
    /\ \E up \in InitialDelayUploaders :
         fn = [of |-> "scan", at |-> "sc_clone", status |-> "running", up |-> up,
               upAtStart |-> up, clone |-> NoClone, targets |-> <<>>, idx |-> 1,
               validReports |-> EmptyMap, branchesToDelete |-> <<>>, inspected |-> {}]

scVars == <<remote, repo, disk, opts, pc, attempt, lastError, delIdx, succeeded,
            outcome, thrownMsg, calls, nextId, tipAtStart, written, callLog,
            pub, trk, race>>
ScAt(at) == fn.of = "scan" /\ fn.at = at
\* catch (error) { console.error(...); throw error; } of the function
ScThrow(f) == [f EXCEPT !.at = "sc_done", !.status = "failed"]
\* the loop over targetBranches goes on, or the deletions begin
ScNextBranch(f) ==
    IF f.idx < Len(f.targets) THEN [f EXCEPT !.at = "sc_checkout", !.idx = @ + 1]
    ELSE [f EXCEPT !.at = IF f.branchesToDelete = <<>> THEN "sc_cleanup" ELSE "sc_del_master",
                   !.idx = 1]
\* the loop over branchesToDelete goes on, or the scan cleans up
ScNextDelete(f) ==
    IF f.idx < Len(f.branchesToDelete) THEN [f EXCEPT !.at = "sc_del_master", !.idx = @ + 1]
    ELSE [f EXCEPT !.at = "sc_cleanup"]

\* git.clone(process.env.GITEE_MINI_DATA_UPLOADER_URL, tempDir)
ScClone ==
    /\ ScAt("sc_clone")
    /\ \E inj \in Inject :
         /\ Bump(inj)
         /\ fn' = IF inj THEN ScThrow(fn)
                  ELSE [fn EXCEPT !.at = "sc_list", !.clone = FreshClone(fn.up, MASTER_BRANCH)]
    /\ UNCHANGED scVars

\* repoGit.branch() and the filter on the upload type and the time window
ScList ==
    /\ ScAt("sc_list")
    /\ \E inj \in Inject :
         /\ Bump(inj)
         /\ LET targets == SelectSeq(DelayUploadBranchNames,
                              LAMBDA b : b \in DOMAIN fn.clone.tracking /\ InDelayWindow(b))
            IN fn' = IF inj THEN ScThrow(fn)
                     ELSE [fn EXCEPT !.targets = targets, !.idx = 1,
                                     !.at = IF targets = <<>> THEN "sc_cleanup"
                                            ELSE "sc_checkout"]
    /\ UNCHANGED scVars

\* try { await repoGit.checkout(['-b', actualBranchName, branch])
ScCheckout ==
    /\ ScAt("sc_checkout")
    /\ \E inj \in Inject :
         /\ Bump(inj)
         /\ LET b == fn.targets[fn.idx]
            IN fn' = IF inj \/ ~GitCheckoutNewOk(fn.clone, b, b)
                       THEN [fn EXCEPT !.at = "sc_catch"]
                     ELSE [fn EXCEPT !.at = "sc_inspect",
                                     !.clone = GitCheckoutNew(fn.clone, b, b)]
    /\ UNCHANGED scVars

\* the report was accepted
ScAccept(f, b, data) ==
    [f EXCEPT !.validReports =
                 Put(@, data.trainNumber.v,
                     (IF data.trainNumber.v \in DOMAIN @ THEN @[data.trainNumber.v] ELSE <<>>)
                       \o <<data>>),
              !.branchesToDelete = Append(@, b),
              !.inspected = @ \cup {b},
              !.at = "sc_master"]
\* the file is missing, cannot be parsed or fails the validation
ScReject(f, b) ==
    [f EXCEPT !.branchesToDelete = Append(@, b), !.inspected = @ \cup {b},
              !.at = "sc_master"]

\* if (fs.existsSync(filePath)) { readFileSync; try { JSON.parse;
\* isValidTrainDelayReport ... } catch (parseError) ... } else ...
ScInspect ==
    /\ ScAt("sc_inspect")
    /\ LET b == fn.targets[fn.idx]
           exists == DelayUploadFile \in DOMAIN fn.clone.wt
       IN \E inj \in (IF exists THEN Inject ELSE {FALSE}) :
            /\ Bump(inj)
            /\ fn' = IF ~exists THEN ScReject(fn, b)
                     ELSE IF inj THEN [fn EXCEPT !.at = "sc_catch"]
                     ELSE IF ~ParsesAsJson(fn.clone.wt[DelayUploadFile]) THEN ScReject(fn, b)
                     ELSE IF IsValidTrainDelayReport(JsonParse(fn.clone.wt[DelayUploadFile]))
                       THEN ScAccept(fn, b, JsonParse(fn.clone.wt[DelayUploadFile]))
                     ELSE ScReject(fn, b)
    /\ UNCHANGED scVars

\* await repoGit.checkout(MASTER_BRANCH), the last statement of the try
ScMaster ==
    /\ ScAt("sc_master")
    /\ \E inj \in Inject :
         /\ Bump(inj)
         /\ fn' = IF inj \/ ~GitCheckoutOk(fn.clone, MASTER_BRANCH)
                    THEN [fn EXCEPT !.at = "sc_catch"]
                  ELSE ScNextBranch([fn EXCEPT !.clone = GitCheckout(@, MASTER_BRANCH)])
    /\ UNCHANGED scVars

\* catch (branchError) { try { checkout(MASTER_BRANCH) } catch { log } }
ScCatch ==
    /\ ScAt("sc_catch")
    /\ \E inj \in Inject :
         /\ Bump(inj)
         /\ fn' = IF inj \/ ~GitCheckoutOk(fn.clone, MASTER_BRANCH)
                    THEN ScNextBranch(fn)
                  ELSE ScNextBranch([fn EXCEPT !.clone = GitCheckout(@, MASTER_BRANCH)])
    /\ UNCHANGED scVars

\* for (const branch of branchesToDelete) try { checkout(MASTER_BRANCH)
ScDelMaster ==
    /\ ScAt("sc_del_master")
    /\ \E inj \in Inject :
         /\ Bump(inj)
         /\ fn' = IF inj \/ ~GitCheckoutOk(fn.clone, MASTER_BRANCH)
                    THEN ScNextDelete(fn)
                  ELSE [fn EXCEPT !.at = "sc_del_local",
                                  !.clone = GitCheckout(@, MASTER_BRANCH)]
    /\ UNCHANGED scVars

\* deleteLocalBranch(branch, true)
ScDelLocal ==
    /\ ScAt("sc_del_local")
    /\ \E inj \in Inject :
         /\ Bump(inj)
         /\ LET b == fn.branchesToDelete[fn.idx]
            IN fn' = IF inj \/ ~GitDeleteLocalBranchOk(fn.clone, b)
                       THEN ScNextDelete(fn)
                     ELSE [fn EXCEPT !.at = "sc_del_push",
                                     !.clone = GitDeleteLocalBranch(@, b)]
    /\ UNCHANGED scVars

\* push(['origin', '--delete', branch]) } catch (deleteError) { log }
ScDelPush ==
    /\ ScAt("sc_del_push")
    /\ \E inj \in Inject :
         /\ Bump(inj)
         /\ LET b == fn.branchesToDelete[fn.idx]
            IN fn' = IF inj \/ ~GitPushDeleteOk(fn.up, b)
                       THEN ScNextDelete(fn)
                     ELSE ScNextDelete([fn EXCEPT !.up = GitPushDeleteRemote(@, b),
                                                  !.clone = GitPushDeleteRepo(@, b)])
    /\ UNCHANGED scVars

\* fs.rmSync(tempDir); return validReports
ScCleanup ==
    /\ ScAt("sc_cleanup")
    /\ \E inj \in Inject :
         /\ Bump(inj)
         /\ fn' = IF inj THEN ScThrow(fn)
                  ELSE [fn EXCEPT !.at = "sc_done", !.status = "returned"]
    /\ UNCHANGED scVars

NextScan ==
    \/ ScClone
    \/ ScList
    \/ ScCheckout
    \/ ScInspect
    \/ ScMaster
    \/ ScCatch
    \/ ScDelMaster
    \/ ScDelLocal
    \/ ScDelPush
    \/ ScCleanup

SpecScan == InitScan /\ [][NextScan]_vars

\* ---------------------------------------------------------------- C35
\* the report file the branch held when the scan began, parsed; none when
\* the file is missing or is not JSON
ReportOnBranch(b) ==
    LET tree == fn.upAtStart[b].tree
    IN IF DelayUploadFile \in DOMAIN tree /\ "json" \in DOMAIN tree[DelayUploadFile]
       THEN <<tree[DelayUploadFile].json>> ELSE <<>>
\* exactly the six fields, five strings and a number
WellFormedReport(r) ==
    /\ DOMAIN r = RequiredFields
    /\ r.reportTimestamp.type = "number"
    /\ \A f \in RequiredFields \ {"reportTimestamp"} : r[f].type = "string"
\* C35: a branch leaves the uploader repository only by the scan's push
\* --delete, and only after the branch was checked out and its report file
\* inspected; a target branch that was not inspected is still on the remote;
\* the branches queued for deletion are the inspected ones; every report
\* in the result is the well-formed report of an inspected branch, filed
\* under its train number.
C35_DeleteAfterInspection ==
    /\ [](fn.of = "scan"
            => /\ \A b \in DOMAIN fn.upAtStart : b \notin DOMAIN fn.up => b \in fn.inspected
               /\ \A b \in fn.inspected : InDelayWindow(b)
               /\ \A i \in 1..Len(fn.branchesToDelete) : fn.branchesToDelete[i] \in fn.inspected
               /\ \A t \in DOMAIN fn.validReports :
                    \A i \in 1..Len(fn.validReports[t]) :
                      LET r == fn.validReports[t][i]
                      IN /\ WellFormedReport(r)
                         /\ r.trainNumber.v = t
                         /\ \E b \in fn.inspected : ReportOnBranch(b) = <<r>>)
    /\ [][fn.of = "scan"
            => /\ fn'.inspected # fn.inspected
                    => /\ fn.at = "sc_inspect"
                       /\ fn'.inspected = fn.inspected \cup {fn.clone.head}
                       /\ fn.clone.head = fn.targets[fn.idx]
                       /\ fn.clone.wt = fn.upAtStart[fn.clone.head].tree
               /\ fn'.up # fn.up => fn.at = "sc_del_push"
               /\ (fn.at \in {"sc_checkout", "sc_inspect"} /\ fn'.at = "sc_catch")
                    => /\ fn'.inspected = fn.inspected
                       /\ fn'.branchesToDelete = fn.branchesToDelete
                       /\ fn'.validReports = fn.validReports]_vars

\* the scan has returned the report of the first branch and deleted the
\* branch; the second branch, whose checkout threw, is still on the remote
C35_Witness ==
    /\ fn.of = "scan"
    /\ fn.status = "returned"
    /\ fn.targets = <<"train-delay-upload_1_a", "train-delay-upload_2_b">>
    /\ fn.inspected = {"train-delay-upload_1_a"}
    /\ fn.validReports = Put(EmptyMap, "G1", <<DelayReport("train-delay-upload_1_a")>>)
    /\ "train-delay-upload_1_a" \notin DOMAIN fn.up
    /\ "train-delay-upload_2_b" \in DOMAIN fn.up

\* ---------------------------------------------------------------------
\* HistoryResultUtil: the static history cache, its initialize and its
\* query methods (utils/history/HistoryResultUtil.ts).  The class state is
\* shared by every call; a call runs from one await to the next without
\* interleaving, and other calls and queries run between its awaits.
\* ---------------------------------------------------------------------
MaxCallers == 2      \* callers that may have an initialize call in flight
MaxInitCalls == 3    \* initialize calls started in one behaviour

\* `version_${APP_NAME}-gdcj-train-detail`, `data_${APP_NAME}-gdcj-train-detail`
HistoryVersionBranch == "version_app-gdcj-train-detail"
HistoryDataBranch == "data_app-gdcj-train-detail"
\* path.join(tempVersionRepoDir, 'version', versionFileName)
HistoryVersionPath == [dir |-> "version", file |-> "app-gdcj-train-detail.version.json"]
\* path.join(baseTempDir, 'version-repo'), path.join(baseTempDir, 'data-repo')
TempVersionRepoDir == "temp-for-history-util/version-repo"
TempDataRepoDir == "temp-for-history-util/data-repo"
\* path.join(tempDataRepoDir, 'data', historyFileName)
HistoryFilePath(historyFileName) == [dir |-> "data", file |-> historyFileName]
HistoryFileName == "app-gdcj-train-detail.t1.msgpack.zst"

\* a date string: 'YYYY-MM-DD', 'YYYYMMDD', or something else
DateString(fmt, day) == [fmt |-> fmt, day |-> day]
QueryDates ==
    { DateString(fmt, day) : fmt \in {"YYYY-MM-DD", "YYYYMMDD", "other"}, day \in {1, 2} }
QueryCodes == {"G1", "G2", "G9"}

\* normalizeDateFormat
NormalizeDateFormat(dateStr) ==
    IF dateStr.fmt = "YYYY-MM-DD" THEN dateStr
    ELSE IF dateStr.fmt = "YYYYMMDD" THEN DateString("YYYY-MM-DD", dateStr.day)
    ELSE dateStr

\* a TrainDetail, of which the index reads stopTime[].stationTrainCode
TrainDetailOf(id, codes) ==
    [id |-> id, stopTime |-> [i \in 1..Len(codes) |-> [stationTrainCode |-> codes[i]]]]
\* the TrainDetailMap files the data branch may hold
HistoryResults ==
    { EmptyMap,
      Put(EmptyMap, DateString("YYYY-MM-DD", 1),
          <<TrainDetailOf("a", <<"G1", "G2", "G1">>)>>),
      Put(Put(EmptyMap, DateString("YYYY-MM-DD", 1),
              <<TrainDetailOf("a", <<"G1", "G2">>), TrainDetailOf("b", <<"G2">>)>>),
          DateString("YYYY-MM-DD", 2), <<>>) }

\* a Map<string, TrainDetail>: keys() lists the keys in insertion order
NewMap == [keys |-> <<>>, at |-> EmptyMap]
MapSet(mp, k, v) ==
    [keys |-> IF k \in DOMAIN mp.at THEN mp.keys ELSE Append(mp.keys, k),
     at |-> Put(mp.at, k, v)]

\* buildInternalIndex: for each date a new map, every stationTrainCode of a
\* train set to the train; the map of the date replaces the one in the index
RECURSIVE IndexStops(_, _, _)
IndexStops(mp, trainDetail, i) ==
    IF i > Len(trainDetail.stopTime) THEN mp
    ELSE IndexStops(MapSet(mp, trainDetail.stopTime[i].stationTrainCode, trainDetail),
                    trainDetail, i + 1)
RECURSIVE IndexTrains(_, _, _)
IndexTrains(mp, trainDetails, j) ==
    IF j > Len(trainDetails) THEN mp
    ELSE IndexTrains(IndexStops(mp, trainDetails[j], 1), trainDetails, j + 1)
BuildInternalIndex(index, oldResult) ==
    [dateKey \in (DOMAIN index) \cup (DOMAIN oldResult) |->
        IF dateKey \in DOMAIN oldResult THEN IndexTrains(NewMap, oldResult[dateKey], 1)
        ELSE index[dateKey]]

\* ensureInitialized, then the lookup of getTrainListByDate
\* (mutant: the method does not call ensureInitialized)
GetTrainListByDateUnchecked(isInitialized, index, date) ==
    LET normalizedDate == NormalizeDateFormat(date)
    IN IF normalizedDate \notin DOMAIN index THEN [threw |-> FALSE, result |-> <<>>]
       ELSE [threw |-> FALSE, result |-> index[normalizedDate].keys]
GetTrainListByDate(isInitialized, index, date) ==
    LET normalizedDate == NormalizeDateFormat(date)
    IN IF ~isInitialized THEN [threw |-> TRUE, result |-> "not initialized"]
       ELSE IF normalizedDate \notin DOMAIN index THEN [threw |-> FALSE, result |-> <<>>]
       ELSE [threw |-> FALSE, result |-> index[normalizedDate].keys]
\* getTrainDetail; undefined is <<>>, a found train is <<detail>>
GetTrainDetail(isInitialized, index, date, trainCode) ==
    LET normalizedDate == NormalizeDateFormat(date)
    IN IF ~isInitialized THEN [threw |-> TRUE, result |-> "not initialized"]
       ELSE IF normalizedDate \notin DOMAIN index THEN [threw |-> FALSE, result |-> <<>>]
       ELSE [threw |-> FALSE, result |-> Opt(index[normalizedDate].at, trainCode)]

\* what the downloader repository may hold when the cache is initialized
HistoryVersionTrees ==
    { EmptyMap,
      Put(EmptyMap, HistoryVersionPath, [raw |-> "{"]),
      Put(EmptyMap, HistoryVersionPath,
          JsonStringify([_version |-> "t1", _fileName |-> HistoryFileName])) }
HistoryDataTrees ==
    { EmptyMap, Put(EmptyMap, HistoryFilePath(HistoryFileName), [raw |-> "not zstd"]) }
      \cup { Put(EmptyMap, HistoryFilePath(HistoryFileName), Encode(r)) : r \in HistoryResults }
HistoryRemotes ==
    { EmptyMap }
      \cup { Put(EmptyMap, HistoryVersionBranch, v) : v \in HistoryVersionTrees }
      \cup { Put(Put(EmptyMap, HistoryVersionBranch, v), HistoryDataBranch, d) :
               v \in HistoryVersionTrees, d \in HistoryDataTrees }

IdleCall == [at |-> "idle", no |-> 0, outcome |-> "none", held |-> <<>>]

\* the class as loaded: isInitialized = false, oldResult = {}, an empty index
InitHistory ==
    /\ NothingElseRuns
    /\ \E rem \in HistoryRemotes, env \in BOOLEAN :
         fn = [of |-> "history", rem |-> rem, env |-> env,
               isInitialized |-> FALSE, oldResult |-> EmptyMap, index |-> EmptyMap,
               base |-> FALSE, dirs |-> EmptyMap,
               calls |-> [c \in 1..MaxCallers |-> IdleCall],
               started |-> 0, loaders |-> {}, completed |-> {},
               query |-> [method |-> "none"]]

hiVars == <<remote, repo, disk, opts, pc, attempt, lastError, delIdx, succeeded,
            outcome, thrownMsg, calls, nextId, tipAtStart, written, callLog,
            pub, trk, race>>
HiAt(c, at) == fn.of = "history" /\ fn.calls[c].at = at

\* this.isInitialized = true; return; with the finally block on the way out:
\* if (fs.existsSync(baseTempDir)) fs.rmSync(baseTempDir, {recursive, force})
HiReturn(f, c, how) ==
    [f EXCEPT !.isInitialized = TRUE, !.base = FALSE, !.dirs = EmptyMap,
              !.calls[c].at = "returned", !.calls[c].outcome = how,
              !.calls[c].held = <<>>,
              !.completed = @ \cup {f.calls[c].no}]
\* catch (error) { this.oldResult = {}; this.isInitialized = true } finally
HiCatch(f, c) == HiReturn([f EXCEPT !.oldResult = EmptyMap], c, "error")
\* await: the call is suspended until the promise settles
HiAwait(f, c, at) == [f EXCEPT !.calls[c].at = at]

\* initialize(__dirname) up to its first await: the isInitialized guard
\* (mutant: the guard is missing), mkdirSync of baseTempDir, the test of
\* the environment variable, the start of checkBranchExists
HiCallUnguarded(c) ==
    /\ fn.of = "history"
    /\ fn.calls[c].at \in {"idle", "returned"}
    /\ fn.started < MaxInitCalls
    /\ LET no == fn.started + 1
           f0 == [fn EXCEPT !.started = no, !.calls[c] = [IdleCall EXCEPT !.no = no]]
           f1 == [f0 EXCEPT !.loaders = @ \cup {no}, !.base = TRUE]
       IN fn' = IF ~fn.env THEN HiCatch(f1, c)
                ELSE HiAwait(f1, c, "a_version_check")
    /\ UNCHANGED <<faults, hiVars>>
HiCall(c) ==
    /\ fn.of = "history"
    /\ fn.calls[c].at \in {"idle", "returned"}
    /\ fn.started < MaxInitCalls
    /\ LET no == fn.started + 1
           f0 == [fn EXCEPT !.started = no, !.calls[c] = [IdleCall EXCEPT !.no = no]]
           f1 == [f0 EXCEPT !.loaders = @ \cup {no}, !.base = TRUE]
       IN fn' = IF fn.isInitialized
                THEN [f0 EXCEPT !.calls[c].at = "returned", !.calls[c].outcome = "skipped",
                                !.completed = @ \cup {no}]
                ELSE IF ~fn.env THEN HiCatch(f1, c)
                ELSE HiAwait(f1, c, "a_version_check")
    /\ UNCHANGED <<faults, hiVars>>

\* checkBranchExists: listRemote of refs/heads/<branch>; an error is caught
\* and answered false
CheckBranchExists(rem, branchName, inj) == ~inj /\ branchName \in DOMAIN rem

\* checkBranchExists(versionBranchName) settles: the branch is missing, or
\* the stale tempVersionRepoDir is removed and the clone starts
HiVersionChecked(c) ==
    /\ HiAt(c, "a_version_check")
    /\ \E inj \in Inject :
         /\ Bump(inj)
         /\ fn' = IF ~CheckBranchExists(fn.rem, HistoryVersionBranch, inj)
                  THEN HiReturn(fn, c, "version branch missing")
                  ELSE HiAwait([fn EXCEPT !.dirs = Del(@, TempVersionRepoDir)],
                               c, "a_version_clone")
    /\ UNCHANGED hiVars

\* git clone --branch <b> --single-branch into dir settles; git refuses a
\* destination that exists and is not empty
CloneFails(f, dir, inj) == inj \/ dir \in DOMAIN f.dirs

\* the clone of the version branch settles; existsSync and JSON.parse of the
\* version file, the start of checkBranchExists(dataBranchName)
HiVersionCloned(c) ==
    /\ HiAt(c, "a_version_clone")
    /\ \E inj \in Inject :
         /\ Bump(inj)
         /\ LET tree == fn.rem[HistoryVersionBranch]
                f1 == [fn EXCEPT !.base = TRUE, !.dirs = Put(@, TempVersionRepoDir, tree)]
            IN fn' = IF CloneFails(fn, TempVersionRepoDir, inj) THEN HiCatch(fn, c)
                     ELSE IF HistoryVersionPath \notin DOMAIN tree
                     THEN HiReturn(f1, c, "version file missing")
                     ELSE IF ~ParsesAsJson(tree[HistoryVersionPath]) THEN HiCatch(f1, c)
                     ELSE HiAwait([f1 EXCEPT !.calls[c].held =
                                       <<JsonParse(tree[HistoryVersionPath])._fileName>>],
                                  c, "a_data_check")
    /\ UNCHANGED hiVars

\* checkBranchExists(dataBranchName) settles
HiDataChecked(c) ==
    /\ HiAt(c, "a_data_check")
    /\ \E inj \in Inject :
         /\ Bump(inj)
         /\ fn' = IF ~CheckBranchExists(fn.rem, HistoryDataBranch, inj)
                  THEN HiReturn(fn, c, "data branch missing")
                  ELSE HiAwait([fn EXCEPT !.dirs = Del(@, TempDataRepoDir)],
                               c, "a_data_clone")
    /\ UNCHANGED hiVars

\* the clone of the data branch settles; existsSync and readFileSync of the
\* data file, the start of zstdDecompress
HiDataCloned(c) ==
    /\ HiAt(c, "a_data_clone")
    /\ \E inj \in Inject :
         /\ Bump(inj)
         /\ LET tree == fn.rem[HistoryDataBranch]
                f1 == [fn EXCEPT !.base = TRUE, !.dirs = Put(@, TempDataRepoDir, tree)]
                historyFilePath == HistoryFilePath(fn.calls[c].held[1])
            IN fn' = IF CloneFails(fn, TempDataRepoDir, inj) THEN HiCatch(fn, c)
                     ELSE IF historyFilePath \notin DOMAIN tree
                     THEN HiReturn(f1, c, "data file missing")
                     ELSE HiAwait([f1 EXCEPT !.calls[c].held = <<tree[historyFilePath]>>],
                                  c, "a_decompress")
    /\ UNCHANGED hiVars

\* zstdDecompress settles; msgpackDecoder, buildInternalIndex,
\* isInitialized = true
HiDecompressed(c) ==
    /\ HiAt(c, "a_decompress")
    /\ LET compressedHistoryData == fn.calls[c].held[1]
           oldResult == Decode(compressedHistoryData)
       IN fn' = IF "zst" \notin DOMAIN compressedHistoryData THEN HiCatch(fn, c)
                ELSE HiReturn([fn EXCEPT !.oldResult = oldResult,
                                         !.index = BuildInternalIndex(@, oldResult)],
                              c, "loaded")
    /\ UNCHANGED <<faults, hiVars>>

\* a query between two steps of the calls
HiGetTrainListByDate ==
    /\ fn.of = "history"
    /\ \E date \in QueryDates :
         fn' = [fn EXCEPT !.query =
                   [method |-> "getTrainListByDate", date |-> date, code |-> "",
                    answer |-> GetTrainListByDate(fn.isInitialized, fn.index, date)]]
    /\ UNCHANGED <<faults, hiVars>>
HiGetTrainDetail ==
    /\ fn.of = "history"
    /\ \E date \in QueryDates, trainCode \in QueryCodes :
         fn' = [fn EXCEPT !.query =
                   [method |-> "getTrainDetail", date |-> date, code |-> trainCode,
                    answer |-> GetTrainDetail(fn.isInitialized, fn.index, date, trainCode)]]
    /\ UNCHANGED <<faults, hiVars>>

NextHistory ==
    \/ \E c \in 1..MaxCallers :
         \/ HiCall(c)
         \/ HiVersionChecked(c)
         \/ HiVersionCloned(c)
         \/ HiDataChecked(c)
         \/ HiDataCloned(c)
         \/ HiDecompressed(c)
    \/ HiGetTrainListByDate
    \/ HiGetTrainDetail

SpecHistory == InitHistory /\ [][NextHistory]_vars

\* C36: initialize is idempotent: in any sequence of calls, overlapping ones
\* included, only the first call executes the loading logic (the remote
\* checks, the clones, the decoding, the index build).
C36_OnlyFirstCallLoads == fn.of = "history" => fn.loaders \subseteq {1}

\* a call of initialize is suspended at one of its awaits
HistoryCallInFlight == \E c \in 1..MaxCallers : fn.calls[c].at \notin {"idle", "returned"}
\* the step is the return of a call that went past the isInitialized guard
HistoryCallEnds(c) ==
    /\ fn.calls[c].at # "returned" \/ fn'.calls[c].no # fn.calls[c].no
    /\ fn'.calls[c].at = "returned"
    /\ fn'.calls[c].outcome # "skipped"
HistoryOutcomes ==
    {"loaded", "version branch missing", "data branch missing", "version file missing",
     "data file missing", "error"}

MaxFetchCalls == 3   \* fetchTrainDetails calls in one process

\* the days queried: day 7 is a Sunday, Date.getDay() of which is 0
TrainDays == 1..7
GetDay(trainDay) == trainDay % 7
\* getDayOfWeek: day === 0 ? 7 : day
GetDayOfWeek(dateString) == IF GetDay(dateString) = 0 THEN 7 ELSE GetDay(dateString)
\* weekdaySet.has(dayOfWeek) ? 'weekday' : 'weekend'
WeekdaySet == 1..5
CacheType(dayOfWeek) == IF dayOfWeek \in WeekdaySet THEN "weekday" ELSE "weekend"

\* the station pair of a query, and what queryTrainInfo may answer
FromStationCode == "ZQA"
ToStationCode == "FXA"
TrainInfoOf(trainNumber, departureTime, originTrainCode, departureCode, terminalStationCode) ==
    [trainNumber |-> trainNumber, departureTime |-> departureTime, arrivalTime |-> "09:00",
     originTrainCode |-> originTrainCode, departureCode |-> departureCode,
     arrivalCode |-> ToStationCode, originStationCode |-> "ZQA",
     terminalStationCode |-> terminalStationCode]
TrainC1 == TrainInfoOf("C1", "08:00", "o1", FromStationCode, "FXA")
TrainC1Extended == TrainInfoOf("C1", "08:00", "o1", FromStationCode, "PYA")
TrainC1Later == TrainInfoOf("C1", "08:05", "o1", FromStationCode, "FXA")
TrainC1Renumbered == TrainInfoOf("C2", "08:20", "o1", FromStationCode, "FXA")
TrainC3 == TrainInfoOf("C3", "10:00", "o3", FromStationCode, "FXA")
TrainOtherStation == TrainInfoOf("C5", "11:00", "o5", "ZZZ", "FXA")
\* the answer to one query: a thrown error, or the trainInfoList
QueryAnswers ==
    { [threw |-> TRUE, trainInfoList |-> <<>>] }
      \cup { [threw |-> FALSE, trainInfoList |-> l] :
               l \in { <<>>, <<TrainC1>>, <<TrainC1Extended>>, <<TrainC1Later>>,
                       <<TrainC1, TrainOtherStation, TrainC1Renumbered>>,
                       <<TrainC1, TrainC3>> } }

\* batchQueryTrainNumbers: the trains of the queried station pair, the first
\* one of every originTrainCode; a query that throws adds nothing
RECURSIVE AddTrains(_, _, _)
AddTrains(trainInfos, trainInfoList, i) ==
    IF i > Len(trainInfoList) THEN trainInfos
    ELSE LET train == trainInfoList[i]
             skip == \/ train.departureCode # FromStationCode
                     \/ train.arrivalCode # ToStationCode
                     \/ \E k \in 1..Len(trainInfos) :
                          trainInfos[k].originTrainCode = train.originTrainCode
         IN AddTrains(IF skip THEN trainInfos ELSE Append(trainInfos, train),
                      trainInfoList, i + 1)
RECURSIVE BatchQueryTrainNumbers(_, _, _)
BatchQueryTrainNumbers(trainInfos, answers, q) ==
    IF q > Len(answers) THEN trainInfos
    ELSE BatchQueryTrainNumbers(
             IF answers[q].threw THEN trainInfos
             ELSE AddTrains(trainInfos, answers[q].trainInfoList, 1),
             answers, q + 1)
TrainNumbersOf(trainInfos) == [i \in 1..Len(trainInfos) |-> trainInfos[i].trainNumber]

\* checkTrainInfosEqual: the lengths and six fields of every element
CheckTrainInfosEqual(arr1, arr2) ==
    /\ Len(arr1) = Len(arr2)
    /\ \A i \in 1..Len(arr1) :
         /\ arr1[i].trainNumber = arr2[i].trainNumber
         /\ arr1[i].departureTime = arr2[i].departureTime
         /\ arr1[i].arrivalTime = arr2[i].arrivalTime
         /\ arr1[i].originTrainCode = arr2[i].originTrainCode
         /\ arr1[i].departureCode = arr2[i].departureCode
         /\ arr1[i].arrivalCode = arr2[i].arrivalCode

\* lastTrainInfoMap[cacheType] = trainInfos
\* (mutant: the list is stored for both classes)
StoreLastTrainInfosForBoth(lastTrainInfoMap, cacheType, trainInfos) ==
    [weekday |-> trainInfos, weekend |-> trainInfos]
StoreLastTrainInfos(lastTrainInfoMap, cacheType, trainInfos) ==
    [lastTrainInfoMap EXCEPT ![cacheType] = trainInfos]

\* batchQueryTrainDetails: the details of the trains whose query did not throw
FetchedDetailOf(trainNumber, queryDay) == [trainNumber |-> trainNumber, queryDay |-> queryDay]
BatchQueryTrainDetails(trainNumbers, queryDay, failed) ==
    LET kept == SelectSeq(trainNumbers, LAMBDA n : n \notin failed)
    IN [i \in 1..Len(kept) |-> FetchedDetailOf(kept[i], queryDay)]

\* the module as loaded: both caches are empty lists
InitFetch ==
    /\ NothingElseRuns
    /\ fn = [of |-> "fetch", at |-> "ft_idle", count |-> 0, yielded |-> 0,
             lastTrainInfoMap |-> [weekday |-> <<>>, weekend |-> <<>>],
             trainDay |-> 1, trainInfos |-> <<>>, trainNumbers |-> <<>>,
             returned |-> <<>>, prev |-> [weekday |-> <<>>, weekend |-> <<>>]]

ftVars == <<remote, repo, disk, opts, pc, attempt, lastError, delIdx, succeeded,
            outcome, thrownMsg, calls, nextId, tipAtStart, written, callLog,
            pub, trk, race, faults>>
FtAt(at) == fn.of = "fetch" /\ fn.at = at

\* fetchTrainDetails(trainDay): await batchQueryTrainNumbers(queries)
FtBatchQueryTrainNumbers ==
    /\ FtAt("ft_idle")
    /\ fn.count < MaxFetchCalls
    /\ \E trainDay \in TrainDays, answer \in QueryAnswers :
         LET trainInfos == BatchQueryTrainNumbers(<<>>, <<answer>>, 1)
             cacheType == CacheType(GetDayOfWeek(fn.trainDay))
         IN fn' = [fn EXCEPT !.at = "ft_compare", !.count = @ + 1, !.trainDay = trainDay,
                             !.trainInfos = trainInfos,
                             !.trainNumbers = TrainNumbersOf(trainInfos),
                             !.prev = IF fn.count = 0 THEN @
                                      ELSE [@ EXCEPT ![cacheType] = <<fn.trainInfos>>]]
    /\ UNCHANGED ftVars

\* the comparison with the list of the class: return [], or store the list
\* and start batchQueryTrainDetails
FtCompare ==
    /\ FtAt("ft_compare")
    /\ LET cacheType == CacheType(GetDayOfWeek(fn.trainDay))
           lastTrainInfos == fn.lastTrainInfoMap[cacheType]
       IN fn' = IF CheckTrainInfosEqual(fn.trainInfos, lastTrainInfos)
                THEN [fn EXCEPT !.at = "ft_idle", !.returned = <<>>]
                ELSE [fn EXCEPT !.at = "ft_details",
                                !.lastTrainInfoMap =
                                    StoreLastTrainInfos(@, cacheType, fn.trainInfos)]
    /\ UNCHANGED ftVars

\* batchQueryTrainDetails settles and fetchTrainDetails returns its list
FtBatchQueryTrainDetails ==
    /\ FtAt("ft_details")
    /\ \E failed \in SUBSET {fn.trainNumbers[i] : i \in 1..Len(fn.trainNumbers)} :
         LET trainDetails == BatchQueryTrainDetails(fn.trainNumbers, fn.trainDay, failed)
         IN fn' = [fn EXCEPT !.at = "ft_idle", !.returned = trainDetails,
                             !.yielded = @ + (IF trainDetails = <<>> THEN 0 ELSE 1)]
    /\ UNCHANGED ftVars

NextFetch ==
    \/ FtBatchQueryTrainNumbers
    \/ FtCompare
    \/ FtBatchQueryTrainDetails

SpecFetch == InitFetch /\ [][NextFetch]_vars

\* the class of the day of the call in progress, and the step that ends it
FetchClass == CacheType(GetDayOfWeek(fn.trainDay))
FetchReturns == fn.at \in {"ft_compare", "ft_details"} /\ fn'.at = "ft_idle"

====
